---------------------------- MODULE Spec2Model ----------------------------
(***************************************************************************)
(* A model of src/src/librustc/back/link.rs: symbol naming (crate hash,   *)
(* per-type symbol hash and its cache, sanitize, mangle) and the link     *)
(* driver (link_binary and what it calls).                                 *)
(*                                                                         *)
(* Strings are sequences of characters; a character is a one-character    *)
(* string, except the grave accent, written "U+0060", and the three       *)
(* non-ASCII sample characters "U+00E9", "U+20AC" and "U+1F600", which    *)
(* stand for one character each.                                           *)
(***************************************************************************)
EXTENDS Integers, Sequences, FiniteSets, TLC

(***************************************************************************)
(* Bounds of the model.                                                    *)
(***************************************************************************)
\* longest symbol path given to mangle
MaxPathLen == 2
\* most upstream crates in the crate store
MaxCrates == 2
\* most output styles requested of one link_binary
MaxOutputs == 2
\* most symbol-naming calls modelled in one session
MaxCalls == 3

(***************************************************************************)
(* Characters and strings.                                                 *)
(***************************************************************************)
\* the printable ASCII characters, AsciiTable[i] having code point 31 + i
AsciiTable ==
    << " ", "!", "\"", "#", "$", "%", "&", "'", "(", ")", "*", "+", ",", "-",
       ".", "/", "0", "1", "2", "3", "4", "5", "6", "7", "8", "9", ":", ";",
       "<", "=", ">", "?", "@", "A", "B", "C", "D", "E", "F", "G", "H", "I",
       "J", "K", "L", "M", "N", "O", "P", "Q", "R", "S", "T", "U", "V", "W",
       "X", "Y", "Z", "[", "\\", "]", "^", "_", "U+0060", "a", "b", "c", "d", "e",
       "f", "g", "h", "i", "j", "k", "l", "m", "n", "o", "p", "q", "r", "s",
       "t", "u", "v", "w", "x", "y", "z", "{", "|", "}", "~" >>

NonAsciiChars == {"U+00E9", "U+20AC", "U+1F600"}

AsciiChars == {AsciiTable[i] : i \in DOMAIN AsciiTable}

CodePointTable ==
    [c \in AsciiChars \cup NonAsciiChars |->
        IF c = "U+00E9" THEN 233
        ELSE IF c = "U+20AC" THEN 8364
        ELSE IF c = "U+1F600" THEN 128512
        ELSE 31 + (CHOOSE i \in DOMAIN AsciiTable : AsciiTable[i] = c)]

\* the code point of a character (c as u32)
CodePoint(c) == CodePointTable[c]

InRange(c, lo, hi) == CodePoint(lo) <= CodePoint(c) /\ CodePoint(c) <= CodePoint(hi)

IsDigit(c) == InRange(c, "0", "9")

IsAsciiLetter(c) == InRange(c, "a", "z") \/ InRange(c, "A", "Z")

\* std::char::is_XID_start on the characters of the model: the ASCII letters
\* and the letter U+00E9; not '_', digits, punctuation, U+20AC or U+1F600
is_XID_start(c) == IsAsciiLetter(c) \/ c = "U+00E9"

RECURSIVE Concat(_)
Concat(ss) == IF ss = <<>> THEN <<>> ELSE Head(ss) \o Concat(Tail(ss))

starts_with(s, p) == Len(s) >= Len(p) /\ SubSeq(s, 1, Len(p)) = p

ends_with(s, p) == Len(s) >= Len(p) /\ SubSeq(s, Len(s) - Len(p) + 1, Len(s)) = p

slice_from(s, n) == SubSeq(s, n + 1, Len(s))

\* s.slice_chars(begin, end), which fails when the string is too short
slice_chars(s, begin, end) == SubSeq(s, begin + 1, end)

DecDigits == <<"0", "1", "2", "3", "4", "5", "6", "7", "8", "9">>

\* format!("{}", n) of an unsigned integer
RECURSIVE DecStr(_)
DecStr(n) == IF n < 10 THEN <<DecDigits[n + 1]>>
             ELSE DecStr(n \div 10) \o <<DecDigits[(n % 10) + 1]>>

HexDigits == <<"0", "1", "2", "3", "4", "5", "6", "7", "8", "9",
               "a", "b", "c", "d", "e", "f">>

RECURSIVE HexPad(_, _)
HexPad(n, pad) == IF pad = 0 THEN <<>>
                  ELSE HexPad(n \div 16, pad - 1) \o <<HexDigits[(n % 16) + 1]>>

\* std::char::escape_unicode: \xNN up to U+00FF, \uNNNN up to U+FFFF,
\* \UNNNNNNNN above, lower-case hexadecimal digits
escape_unicode(c) ==
    LET cp == CodePoint(c)
    IN  IF cp <= 255 THEN <<"\\", "x">> \o HexPad(cp, 2)
        ELSE IF cp <= 65535 THEN <<"\\", "u">> \o HexPad(cp, 4)
        ELSE <<"\\", "U">> \o HexPad(cp, 8)

\* the optional values of the code
None == [some |-> FALSE, v |-> <<>>]
Some(x) == [some |-> TRUE, v |-> x]

(***************************************************************************)
(* Name sanitation and mangling.                                           *)
(***************************************************************************)
\* sanitize without its last arm: any other character is pushed as it is
SanitizeCharNoEscape(c) ==
    IF c = "@" THEN <<"$", "S", "P", "$">>
    ELSE IF c = "~" THEN <<"$", "U", "P", "$">>
    ELSE IF c = "*" THEN <<"$", "R", "P", "$">>
    ELSE IF c = "&" THEN <<"$", "B", "P", "$">>
    ELSE IF c = "<" THEN <<"$", "L", "T", "$">>
    ELSE IF c = ">" THEN <<"$", "G", "T", "$">>
    ELSE IF c = "(" THEN <<"$", "L", "P", "$">>
    ELSE IF c = ")" THEN <<"$", "R", "P", "$">>
    ELSE IF c = "," THEN <<"$", "C", "$">>
    ELSE IF c = "-" \/ c = ":" THEN <<".">>
    ELSE <<c>>

\* the match of sanitize on one character
SanitizeChar(c) ==
    IF c = "@" THEN <<"$", "S", "P", "$">>
    ELSE IF c = "~" THEN <<"$", "U", "P", "$">>
    ELSE IF c = "*" THEN <<"$", "R", "P", "$">>
    ELSE IF c = "&" THEN <<"$", "B", "P", "$">>
    ELSE IF c = "<" THEN <<"$", "L", "T", "$">>
    ELSE IF c = ">" THEN <<"$", "G", "T", "$">>
    ELSE IF c = "(" THEN <<"$", "L", "P", "$">>
    ELSE IF c = ")" THEN <<"$", "R", "P", "$">>
    ELSE IF c = "," THEN <<"$", "C", "$">>
    ELSE IF c = "-" \/ c = ":" THEN <<".">>
    ELSE IF \/ InRange(c, "a", "z") \/ InRange(c, "A", "Z") \/ InRange(c, "0", "9")
            \/ c = "_" \/ c = "." \/ c = "$" THEN <<c>>
    ELSE <<"$">> \o slice_from(escape_unicode(c), 1)

RECURSIVE SanitizeChars(_)
SanitizeChars(s) ==
    IF s = <<>> THEN <<>> ELSE SanitizeChar(Head(s)) \o SanitizeChars(Tail(s))

sanitize(s) ==
    LET result == SanitizeChars(s)
    IN  IF Len(result) > 0 /\ result[1] # "_" /\ ~is_XID_start(result[1])
        THEN <<"_">> \o result
        ELSE result

\* push prefixing the length of the raw string instead of the sanitized one
pushRawLen(s) == DecStr(Len(s)) \o sanitize(s)

\* the closure push of mangle: the text it appends to n
push(s) == LET sani == sanitize(s) IN DecStr(Len(sani)) \o sani

EXTRA_CHARS ==
    << "a", "b", "c", "d", "e", "f", "g", "h", "i", "j", "k", "l", "m",
       "n", "o", "p", "q", "r", "s", "t", "u", "v", "w", "x", "y", "z",
       "A", "B", "C", "D", "E", "F", "G", "H", "I", "J", "K", "L", "M",
       "N", "O", "P", "Q", "R", "S", "T", "U", "V", "W", "X", "Y", "Z",
       "0", "1", "2", "3", "4", "5", "6", "7", "8", "9" >>

\* A 64-bit disambiguator is four 16-bit words, most significant first.
\* (w1 * 2^16 + w0) % m of a 32-bit value, within the integers of the checker
U32Mod(w1, w0, m) == (((w1 % m) * (65536 % m)) + (w0 % m)) % m

\* the two characters with the high and the low half exchanged
ExtraCharsSwapped(extra) ==
    LET hi == U32Mod(extra[1], extra[2], Len(EXTRA_CHARS))
        lo == U32Mod(extra[3], extra[4], Len(EXTRA_CHARS))
    IN  <<EXTRA_CHARS[lo + 1], EXTRA_CHARS[hi + 1]>>

\* the two characters mangle derives from the extra of a path_pretty_name
ExtraChars(extra) ==
    LET hi == U32Mod(extra[1], extra[2], Len(EXTRA_CHARS))
        lo == U32Mod(extra[3], extra[4], Len(EXTRA_CHARS))
    IN  <<EXTRA_CHARS[hi + 1], EXTRA_CHARS[lo + 1]>>

\* the elements of a path
path_name(s) == [tag |-> "path_name", s |-> s, extra |-> <<0, 0, 0, 0>>]
path_mod(s) == [tag |-> "path_mod", s |-> s, extra |-> <<0, 0, 0, 0>>]
path_pretty_name(s, extra) == [tag |-> "path_pretty_name", s |-> s, extra |-> extra]

\* first loop of mangle: each component as a <len, name> pair
RECURSIVE MangleNames(_)
MangleNames(ss) ==
    IF ss = <<>> THEN <<>> ELSE push(Head(ss).s) \o MangleNames(Tail(ss))

\* second loop of mangle: the characters pushed onto hash
RECURSIVE MangleExtras(_)
MangleExtras(ss) ==
    IF ss = <<>> THEN <<>>
    ELSE (IF Head(ss).tag = "path_pretty_name" THEN ExtraChars(Head(ss).extra) ELSE <<>>)
         \o MangleExtras(Tail(ss))

mangle(ss, hash, vers) ==
    LET h == (IF hash.some THEN hash.v ELSE <<>>) \o MangleExtras(ss)
    IN  <<"_", "Z", "N">>
        \o MangleNames(ss)
        \o (IF Len(h) > 0 THEN push(h) ELSE <<>>)
        \o (IF vers.some THEN push(vers.v) ELSE <<>>)
        \o <<"E">>

exported_name(path, hash, vers) ==
    LET v == IF Len(vers) > 0 /\ ~is_XID_start(vers[1]) THEN <<"v">> \o vers ELSE vers
    IN  mangle(path, Some(hash), Some(v))

(***************************************************************************)
(* Hashing: the SHA-256 hasher, the crate hash and the symbol hash.        *)
(***************************************************************************)
\* number of hexadecimal characters of a SHA-256 digest
Sha256HexLen == 64

\* The state of a Sha256 is the input it was given since its last reset.
\* Sha256::reset, input_str and result_str; the digest is a stand-in for
\* SHA-256: a function of the whole input giving Sha256HexLen lower-case
\* hexadecimal characters
reset(symbol_hasher) == <<>>
input_str(symbol_hasher, s) == symbol_hasher \o s
result_str(symbol_hasher) ==
    LET n == Len(symbol_hasher)
        At(k) == IF n = 0 THEN 0 ELSE CodePoint(symbol_hasher[(k % n) + 1])
    IN  [i \in 1..Sha256HexLen |->
            HexDigits[((At(i) + 3 * At(7 * i + 3) + 5 * At(n - i) + n + i * i) % 16) + 1]]

\* PkgId::version_or_default
version_or_default(pkgid) ==
    IF pkgid.version.some THEN pkgid.version.v ELSE <<"0", ".", "0">>

\* PkgId::to_str, the canonical string of a package identity
pkgid_to_str(pkgid) ==
    (IF pkgid.path = <<>> THEN pkgid.name ELSE pkgid.path \o <<"/">> \o pkgid.name)
    \o <<"#">> \o version_or_default(pkgid)

\* PkgId::from_str of a bare file stem: the name, no version
pkgid_from_stem(stem) == [path |-> <<>>, name |-> stem, version |-> None]

truncated_hash_result(symbol_hasher) == result_str(symbol_hasher)

\* fn crate_hash of build_link_meta: the hasher it leaves and the hash
CrateHashHasher(symbol_hasher, pkgid) == input_str(reset(symbol_hasher), pkgid_to_str(pkgid))
crate_hash(symbol_hasher, pkgid) ==
    truncated_hash_result(CrateHashHasher(symbol_hasher, pkgid))

\* build_link_meta: attr_pkgid is what attr::find_pkgid found, stem is
\* output.filestem_str(); without both, session::expect is fatal
build_link_meta(attr_pkgid, stem, symbol_hasher) ==
    IF ~attr_pkgid.some /\ ~stem.some
    THEN [fatal |-> TRUE, link_meta |-> None, symbol_hasher |-> symbol_hasher]
    ELSE LET pkgid == IF attr_pkgid.some THEN attr_pkgid.v ELSE pkgid_from_stem(stem.v)
         IN  [fatal |-> FALSE,
              link_meta |-> Some([pkgid |-> pkgid,
                                  crate_hash |-> crate_hash(symbol_hasher, pkgid)]),
              symbol_hasher |-> CrateHashHasher(symbol_hasher, pkgid)]

\* the types of the model and their renderings by the encoder and by ppaux
TypeIds == {"t_int", "t_vec", "t_fn"}

encoded_ty(t) ==
    IF t = "t_int" THEN <<"i">>
    ELSE IF t = "t_vec" THEN <<"~", "V", "i">>
    ELSE <<"F", "i", "N">>

ty_to_short_str(t) ==
    IF t = "t_int" THEN <<"i", "n", "t">>
    ELSE IF t = "t_vec" THEN <<"~", "[", "i", "n", "t", "]">>
    ELSE <<"f", "n">>

\* symbol_hash without its reset of the hasher
SymbolHashHasherNoReset(symbol_hasher, t, link_meta) ==
    LET h1 == input_str(symbol_hasher, link_meta.pkgid.name)
        h2 == input_str(h1, <<"-">>)
        h3 == input_str(h2, link_meta.crate_hash)
        h4 == input_str(h3, <<"-">>)
    IN  input_str(h4, encoded_ty(t))

\* the hasher symbol_hash leaves, and the hash it returns
SymbolHashHasher(symbol_hasher, t, link_meta) ==
    LET h0 == reset(symbol_hasher)
        h1 == input_str(h0, link_meta.pkgid.name)
        h2 == input_str(h1, <<"-">>)
        h3 == input_str(h2, link_meta.crate_hash)
        h4 == input_str(h3, <<"-">>)
    IN  input_str(h4, encoded_ty(t))

symbol_hash(symbol_hasher, t, link_meta) ==
    <<"h">> \o truncated_hash_result(SymbolHashHasher(symbol_hasher, t, link_meta))

\* get_symbol_hash without the lookup: the hash is computed on every call
get_symbol_hash_uncached(ccx, t) ==
    LET hash == symbol_hash(ccx.symbol_hasher, t, ccx.link_meta)
    IN  [ccx |-> [ccx EXCEPT
                    !.symbol_hasher = SymbolHashHasher(ccx.symbol_hasher, t, ccx.link_meta),
                    !.type_hashcodes[t] = Some(hash)],
         hash |-> hash,
         ran |-> TRUE]

\* A CrateContext is [link_meta, symbol_hasher, type_hashcodes]; type_hashcodes
\* maps each type to None or Some(hash).
\* get_symbol_hash: the context it leaves, the hash it returns, and whether
\* it ran symbol_hash
get_symbol_hash(ccx, t) ==
    IF ccx.type_hashcodes[t].some
    THEN [ccx |-> ccx, hash |-> ccx.type_hashcodes[t].v, ran |-> FALSE]
    ELSE LET hash == symbol_hash(ccx.symbol_hasher, t, ccx.link_meta)
         IN  [ccx |-> [ccx EXCEPT
                         !.symbol_hasher = SymbolHashHasher(ccx.symbol_hasher, t, ccx.link_meta),
                         !.type_hashcodes[t] = Some(hash)],
              hash |-> hash,
              ran |-> TRUE]

mangle_exported_name(ccx, path, t) ==
    LET g == get_symbol_hash(ccx, t)
    IN  [ccx |-> g.ccx, ran |-> g.ran, hash |-> g.hash,
         name |-> exported_name(path, g.hash, version_or_default(ccx.link_meta.pkgid))]

mangle_internal_name_by_type_only(ccx, t, name) ==
    LET g == get_symbol_hash(ccx, t)
    IN  [ccx |-> g.ccx, ran |-> g.ran, hash |-> g.hash,
         name |-> mangle(<<path_name(name), path_name(ty_to_short_str(t))>>,
                         Some(g.hash), None)]

mangle_internal_name_by_path(ccx, path) ==
    [ccx |-> ccx, ran |-> FALSE, hash |-> <<>>, name |-> mangle(path, None, None)]

(***************************************************************************)
(* The inputs of the model.                                                *)
(***************************************************************************)
SeqsUpTo(S, n) == UNION {[1..k -> S] : k \in 0..n}

\* raw path segments: empty, plain, digit-first, the escaped sigils, a
\* character escaped by its code point
SegSamples ==
    { <<>>, <<"a">>, <<"b">>, <<"1">>, <<"*">>, <<")">>, <<"a", "<", "U+00E9", ">">> }

\* 64-bit disambiguators, as four 16-bit words
ExtraSamples ==
    { <<0, 0, 0, 0>>, <<0, 1, 0, 62>>, <<1, 0, 0, 61>>, <<65535, 65535, 65535, 65535>> }

PathElems ==
    {path_name(s) : s \in SegSamples}
    \cup {path_mod(<<"m">>)}
    \cup {path_pretty_name(<<"a">>, e) : e \in ExtraSamples}

HashSamples == { None, Some(<<>>), Some(<<"b">>), Some(<<"h", "1", "f">>) }

VersSamples == { None, Some(<<"1", ".", "0">>), Some(<<"v", "1", ".", "0">>) }

\* the path, hash and version of end-to-end scenario 3 of the specification
ExampleInput ==
    [ss |-> <<path_mod(<<"m", "y", "c", "r", "a", "t", "e">>), path_name(<<"f", "o", "o">>)>>,
     hash |-> Some(<<"a", "b", "c", "d", "1", "2", "3", "4">>),
     vers |-> Some(<<"1", ".", "0">>),
     s |-> <<>>]

MangleInputs ==
    {[ss |-> ss, hash |-> h, vers |-> v, s |-> <<>>] :
        ss \in SeqsUpTo(PathElems, MaxPathLen), h \in HashSamples, v \in VersSamples}
    \cup {ExampleInput}

\* exported_name always has a hash and a version; the version may be empty
ExportedInputs ==
    {i \in MangleInputs : i.hash.some /\ i.vers.some}
    \cup {[ss |-> ss, hash |-> h, vers |-> Some(<<>>), s |-> <<>>] :
            ss \in SeqsUpTo(PathElems, MaxPathLen), h \in HashSamples \ {None}}

AllChars == AsciiChars \cup NonAsciiChars

CharSamples == {"a", "Z", "0", "_", ".", "$", "-", "@", " ", "U+20AC"}

SanitizeInputs ==
    SegSamples \cup {<<c>> : c \in AllChars} \cup {<<c, d>> : c, d \in CharSamples}

NoInput == [ss |-> <<>>, hash |-> None, vers |-> None, s |-> <<>>]

PkgIdSamples ==
    { [path |-> <<"x">>, name |-> <<"d", "e", "m", "o">>, version |-> Some(<<"1", ".", "0">>)],
      [path |-> <<>>, name |-> <<"f", "o", "o">>, version |-> None] }

StemSamples == { None, Some(<<"d", "e", "m", "o">>) }

SymPaths ==
    { <<path_mod(<<"m">>), path_name(<<"f">>)>>,
      <<path_pretty_name(<<"a">>, <<0, 1, 0, 62>>)>> }

NoLinkMeta == [pkgid |-> [path |-> <<>>, name |-> <<>>, version |-> None], crate_hash |-> <<>>]

(***************************************************************************)
(* The link driver: paths, the session and the crate store.                *)
(***************************************************************************)
\* Path: the index of the last c in s, 0 when there is none
LastIndexOf(s, c) ==
    IF \E i \in 1..Len(s) : s[i] = c
    THEN CHOOSE i \in 1..Len(s) : s[i] = c /\ \A j \in (i + 1)..Len(s) : s[j] # c
    ELSE 0

filename(p) == SubSeq(p, LastIndexOf(p, "/") + 1, Len(p))

dirname_str(p) ==
    LET k == LastIndexOf(p, "/")
    IN  IF k = 0 THEN <<".">> ELSE IF k = 1 THEN <<"/">> ELSE SubSeq(p, 1, k - 1)

with_filename(p, f) == SubSeq(p, 1, LastIndexOf(p, "/")) \o f

filestem_str(p) ==
    LET f == filename(p)
        k == LastIndexOf(f, ".")
    IN  IF k <= 1 THEN f ELSE SubSeq(f, 1, k - 1)

with_extension(p, e) == with_filename(p, filestem_str(p) \o <<".">> \o e)

join(d, f) == d \o <<"/">> \o f

\* std::os::consts of each target
DLL_PREFIX(os) == IF os = "OsWin32" THEN <<>> ELSE <<"l", "i", "b">>

DLL_SUFFIX(os) ==
    IF os = "OsWin32" THEN <<".", "d", "l", "l">>
    ELSE IF os = "OsMacos" THEN <<".", "d", "y", "l", "i", "b">>
    ELSE <<".", "s", "o">>

\* back::archive::METADATA_FILENAME
METADATA_FILENAME == <<"m", "e", "t", "a", "d", "a", "t", "a">>

\* the object file link_binary is given, and the directory of TempDir::new
ObjFilename == <<"b", "u", "i", "l", "d", "/", "d", "e", "m", "o", ".", "o">>
TmpDir == <<"/", "t", "m", "p", "/", "r", "u", "s", "t", "c">>

\* Session::fatal, Session::bug and a failed assert! end the task;
\* Session::err and Session::warn record a diagnostic and return
Diag(msg, what) == [msg |-> msg, what |-> what]

\* Session::abort_if_errors: fatal when an error was recorded
abort_if_errors(errors) == Len(errors) > 0

\* cstore::get_used_crates: each crate with its rlib (RequireStatic) or its
\* dynamic library (RequireDynamic), in the order of the crate store
get_used_crates(cstore, prefer) ==
    [k \in 1..Len(cstore.crates) |->
        [cnum |-> cstore.crates[k].cnum,
         path |-> IF prefer = "RequireStatic" THEN cstore.crates[k].rlib
                  ELSE cstore.crates[k].dylib]]

\* cstore::get_crate_data(cstore, cnum).name and csearch::get_native_libraries
CrateOf(cstore, cnum) ==
    cstore.crates[CHOOSE k \in 1..Len(cstore.crates) : cstore.crates[k].cnum = cnum]

get_crate_name(cstore, cnum) == CrateOf(cstore, cnum).name

get_native_libraries(cstore, cnum) == CrateOf(cstore, cnum).native_libs

\* one argument of the linker; g names the step of link_args that pushed it
Arg(g, s) == [g |-> g, s |-> s]

(***************************************************************************)
(* Output names and the linker program.                                    *)
(***************************************************************************)
\* output_lib_filename taking the first 16 characters of the hash
output_lib_filename_16(lm) ==
    lm.pkgid.name \o <<"-">> \o slice_chars(lm.crate_hash, 0, 16) \o <<"-">>
    \o version_or_default(lm.pkgid)

output_lib_filename(lm) ==
    lm.pkgid.name \o <<"-">> \o slice_chars(lm.crate_hash, 0, 8) \o <<"-">>
    \o version_or_default(lm.pkgid)

\* the out_filename link_binary_output derives for an output style
OutFilename(sess, output, out_filename, lm) ==
    LET libname == output_lib_filename(lm)
    IN  IF output = "OutputRlib"
        THEN with_filename(out_filename, <<"l", "i", "b">> \o libname \o <<".", "r", "l", "i", "b">>)
        ELSE IF output = "OutputDylib"
        THEN with_filename(out_filename,
                           DLL_PREFIX(sess.os) \o libname \o DLL_SUFFIX(sess.os))
        ELSE IF output = "OutputStaticlib"
        THEN with_filename(out_filename, <<"l", "i", "b">> \o libname \o <<".", "a">>)
        ELSE out_filename

\* get_cc_prog choosing by the target alone
get_cc_prog_by_target(sess) ==
    IF sess.os = "OsAndroid"
    THEN IF sess.android_cross_path.some
         THEN [fatal |-> FALSE,
               prog |-> sess.android_cross_path.v \o <<"/", "b", "i", "n", "/", "a", "r", "m", "-", "l", "i", "n", "u", "x", "-", "a", "n", "d", "r", "o", "i", "d", "e", "a", "b", "i", "-", "g", "c", "c">>]
         ELSE [fatal |-> TRUE, prog |-> <<>>]
    ELSE IF sess.os = "OsWin32" THEN [fatal |-> FALSE, prog |-> <<"g", "+", "+">>]
    ELSE [fatal |-> FALSE, prog |-> <<"c", "c">>]

get_cc_prog(sess) ==
    IF sess.linker.some THEN [fatal |-> FALSE, prog |-> sess.linker.v]
    ELSE IF sess.os = "OsAndroid"
    THEN IF sess.android_cross_path.some
         THEN [fatal |-> FALSE,
               prog |-> sess.android_cross_path.v \o <<"/", "b", "i", "n", "/", "a", "r", "m", "-", "l", "i", "n", "u", "x", "-", "a", "n", "d", "r", "o", "i", "d", "e", "a", "b", "i", "-", "g", "c", "c">>]
         ELSE [fatal |-> TRUE, prog |-> <<>>]
    ELSE IF sess.os = "OsWin32" THEN [fatal |-> FALSE, prog |-> <<"g", "+", "+">>]
    ELSE [fatal |-> FALSE, prog |-> <<"c", "c">>]

\* what stat gives for a file: it is missing, or it has or lacks the user
\* write permission
FileStats == {"missing", "writeable", "readonly"}

\* is_writeable: a file that cannot be stat'ed counts as writeable
is_writeable(stat) == stat # "readonly"

\* link_binary_output checking the output file only
WriteableFatalOutputOnly(obj_is_writeable, out_is_writeable) ==
    IF ~out_is_writeable THEN "output file is not writeable" ELSE "none"

\* link_binary_output: the fatal error of its writeability check, "none"
\* when both files are writeable
WriteableFatal(obj_is_writeable, out_is_writeable) ==
    IF ~out_is_writeable THEN "output file is not writeable"
    ELSE IF ~obj_is_writeable THEN "object file is not writeable"
    ELSE "none"

\* link_binary going on with its loop after a fatal error of an output
AfterFatalNextOutput == "link_binary"

\* link_binary: nothing in its loop catches the failure of
\* link_binary_output, so a fatal error ends link_binary
AfterFatal == "failed"

\* link_binary: the output styles it iterates over
EffectiveOutputs(test, outputs) == IF test THEN <<"OutputExecutable">> ELSE outputs

(***************************************************************************)
(* Archives.                                                               *)
(***************************************************************************)
\* the used libraries of the current crate that link_rlib adds
RlibNativeLibraries(cstore) ==
    Concat([k \in 1..Len(cstore.used_libraries) |->
        IF cstore.used_libraries[k].kind = "NativeStatic"
        THEN <<[op |-> "add_native_library", arg |-> cstore.used_libraries[k].name]>>
        ELSE <<>>])

\* link_rlib adding the metadata and the bytecode before the native libraries
link_rlib_metadata_first(sess, trans, obj_filename, out_filename) ==
    <<[op |-> "create", arg |-> obj_filename]>>
    \o (IF trans
        THEN <<[op |-> "add_file", arg |-> with_filename(obj_filename, METADATA_FILENAME)],
               [op |-> "add_file", arg |-> with_extension(obj_filename, <<"b", "c">>)]>>
        ELSE <<>>)
    \o RlibNativeLibraries(sess.cstore)

\* link_rlib: the operations on the archive, in order; trans is whether a
\* crate translation was given
link_rlib(sess, trans, obj_filename, out_filename) ==
    <<[op |-> "create", arg |-> obj_filename]>>
    \o RlibNativeLibraries(sess.cstore)
    \o (IF trans
        THEN <<[op |-> "add_file", arg |-> with_filename(obj_filename, METADATA_FILENAME)],
               [op |-> "add_file", arg |-> with_extension(obj_filename, <<"b", "c">>)]>>
        ELSE <<>>)

\* the files link_rlib removes
link_rlib_unlinked(sess, trans, obj_filename) ==
    IF ~trans THEN {}
    ELSE {with_filename(obj_filename, METADATA_FILENAME)}
         \cup (IF sess.save_temps THEN {} ELSE {with_extension(obj_filename, <<"b", "c">>)})

NativeKindName(kind) ==
    IF kind = "NativeStatic" THEN <<"s", "t", "a", "t", "i", "c", " ", "l", "i", "b", "r", "a", "r", "y">>
    ELSE IF kind = "NativeUnknown" THEN <<"l", "i", "b", "r", "a", "r", "y">>
    ELSE <<"f", "r", "a", "m", "e", "w", "o", "r", "k">>

\* link_staticlib ending its loop at the first crate without an rlib
link_staticlib_return_at_missing(sess, obj_filename, out_filename) ==
    LET crates == get_used_crates(sess.cstore, "RequireStatic")
        missing == {k \in 1..Len(crates) : ~crates[k].path.some}
        stop == IF missing = {} THEN Len(crates) + 1
                ELSE CHOOSE k \in missing : \A j \in missing : k <= j
        name(k) == get_crate_name(sess.cstore, crates[k].cnum)
        libs(k) == get_native_libraries(sess.cstore, crates[k].cnum)
    IN  [archive |->
            link_rlib(sess, FALSE, obj_filename, out_filename)
            \o <<[op |-> "add_native_library", arg |-> <<"m", "o", "r", "e", "s", "t", "a", "c", "k">>]>>
            \o [k \in 1..(stop - 1) |->
                  [op |-> "add_rlib", arg |-> crates[k].path.v,
                   name |-> name(k), lto |-> sess.lto]],
         errors |->
            IF stop <= Len(crates)
            THEN <<Diag("could not find rlib for", name(stop))>> ELSE <<>>,
         warnings |->
            Concat([k \in 1..(stop - 1) |->
                  [j \in 1..Len(libs(k)) |->
                       Diag(<<"u", "n", "l", "i", "n", "k", "e", "d", " ", "n", "a", "t", "i", "v", "e", " ">>
                            \o NativeKindName(libs(k)[j].kind),
                            libs(k)[j].name)]])]

\* link_staticlib: the archive operations, the errors and the warnings
link_staticlib(sess, obj_filename, out_filename) ==
    LET crates == get_used_crates(sess.cstore, "RequireStatic")
        found(k) == crates[k].path.some
        name(k) == get_crate_name(sess.cstore, crates[k].cnum)
        libs(k) == get_native_libraries(sess.cstore, crates[k].cnum)
    IN  [archive |->
            link_rlib(sess, FALSE, obj_filename, out_filename)
            \o <<[op |-> "add_native_library", arg |-> <<"m", "o", "r", "e", "s", "t", "a", "c", "k">>]>>
            \o Concat([k \in 1..Len(crates) |->
                  IF found(k)
                  THEN <<[op |-> "add_rlib", arg |-> crates[k].path.v,
                          name |-> name(k), lto |-> sess.lto]>>
                  ELSE <<>>]),
         errors |->
            Concat([k \in 1..Len(crates) |->
                  IF found(k) THEN <<>>
                  ELSE <<Diag("could not find rlib for", name(k))>>]),
         warnings |->
            Concat([k \in 1..Len(crates) |->
                  IF found(k)
                  THEN [j \in 1..Len(libs(k)) |->
                           Diag(<<"u", "n", "l", "i", "n", "k", "e", "d", " ", "n", "a", "t", "i", "v", "e", " ">> \o NativeKindName(libs(k)[j].kind),
                                libs(k)[j].name)]
                  ELSE <<>>])]

(***************************************************************************)
(* The arguments of the linker.                                            *)
(***************************************************************************)
\* filesearch::rust_path()
rust_path == <<<<".", "r", "u", "s", "t">>>>

add_local_native_libraries(sess) ==
    [k \in 1..Len(sess.addl_lib_search_paths) |->
        Arg("local", <<"-", "L">> \o sess.addl_lib_search_paths[k])]
    \o [k \in 1..Len(rust_path) |-> Arg("local", <<"-", "L">> \o rust_path[k])]
    \o Concat([k \in 1..Len(sess.cstore.used_libraries) |->
          LET l == sess.cstore.used_libraries[k]
          IN  IF l.kind \in {"NativeUnknown", "NativeStatic"}
              THEN <<Arg("local", <<"-", "l">> \o l.name)>>
              ELSE <<Arg("local", <<"-", "f", "r", "a", "m", "e", "w", "o", "r", "k">>), Arg("local", l.name)>>])

unlib(os, stem) ==
    IF starts_with(stem, <<"l", "i", "b">>) /\ os # "OsWin32"
    THEN SubSeq(stem, 4, Len(stem))
    ELSE stem

\* Archive::remove_file and Archive::files on the members of an archive
remove_file(members, file) == SelectSeq(members, LAMBDA f : f # file)

\* the copy the all-static arm makes of one rlib under LTO: fs::copy leaves
\* the files of src as they are, remove_file acts on the archive at dst
LtoCopy(sess, tmpdir, cnum, cratepath, members) ==
    LET name == get_crate_name(sess.cstore, cnum)
        dst == join(tmpdir, filename(cratepath))
    IN  [src |-> cratepath, src_files |-> members,
         dst |-> dst, dst_files |-> remove_file(members, name \o <<".", "o">>)]

\* the all-static arm passing every copy to the linker
StaticCrateArgs_always(sess, tmpdir, cnum, cratepath, members) ==
    IF sess.lto
    THEN <<Arg("upstream_crate", LtoCopy(sess, tmpdir, cnum, cratepath, members).dst)>>
    ELSE <<Arg("upstream_crate", cratepath)>>

\* the arguments of the all-static arm for one crate; members are the
\* files of its rlib
StaticCrateArgs(sess, tmpdir, cnum, cratepath, members) ==
    IF sess.lto
    THEN LET copy == LtoCopy(sess, tmpdir, cnum, cratepath, members)
             files == copy.dst_files
         IN  IF \E i \in 1..Len(files) : ends_with(files[i], <<".", "o">>)
             THEN <<Arg("upstream_crate", copy.dst)>>
             ELSE <<>>
    ELSE <<Arg("upstream_crate", cratepath)>>

\* the arguments of the dynamic arm for one crate
DynamicCrateArgs(sess, cratepath) ==
    LET dir == dirname_str(cratepath)
    IN  (IF dir # <<>> THEN <<Arg("upstream_crate", <<"-", "L">> \o dir)>> ELSE <<>>)
        \o <<Arg("upstream_crate", <<"-", "l">> \o unlib(sess.os, filestem_str(cratepath)))>>

\* the loop of the dynamic fallback going on past a crate without a
\* dynamic library
dynamic_fallback_continue(sess, dynamic) ==
    [errors |-> Concat([k \in 1..Len(dynamic) |->
                  IF dynamic[k].path.some THEN <<>>
                  ELSE <<Diag("could not find dynamic library for",
                              get_crate_name(sess.cstore, dynamic[k].cnum))>>]),
     args |-> Concat([k \in 1..Len(dynamic) |->
                  IF dynamic[k].path.some
                  THEN DynamicCrateArgs(sess, dynamic[k].path.v)
                  ELSE <<>>])]

\* the loop of the dynamic fallback over the used crates: it returns at
\* the first crate without a dynamic library
dynamic_fallback(sess, dynamic) ==
    LET missing == {k \in 1..Len(dynamic) : ~dynamic[k].path.some}
        stop == IF missing = {} THEN Len(dynamic) + 1
                ELSE CHOOSE k \in missing : \A j \in missing : k <= j
    IN  [errors |-> IF stop <= Len(dynamic)
                    THEN <<Diag("could not find dynamic library for",
                                get_crate_name(sess.cstore, dynamic[stop].cnum))>>
                    ELSE <<>>,
         args |-> Concat([k \in 1..(stop - 1) |->
                    DynamicCrateArgs(sess, dynamic[k].path.v)])]

\* the dynamic fallback entered whatever the session says of LTO
lto_assert_never_fails(sess) == FALSE

\* assert!(!sess.lto()) ahead of the dynamic fallback: whether it fails
lto_assert_fails(sess) == sess.lto

\* add_upstream_rust_crates deciding crate by crate: the rlib of a crate
\* that has one, the dynamic library of a crate that has none
add_upstream_rust_crates_per_crate(sess, dylib, tmpdir, members) ==
    LET crates == sess.cstore.crates
    IN  [failed |-> FALSE,
         errors |-> <<>>,
         copies |-> <<>>,
         args |-> Concat([k \in 1..Len(crates) |->
                    IF ~dylib /\ ~sess.prefer_dynamic /\ crates[k].rlib.some
                    THEN StaticCrateArgs(sess, tmpdir, crates[k].cnum, crates[k].rlib.v,
                                         members[crates[k].cnum])
                    ELSE IF crates[k].dylib.some
                    THEN DynamicCrateArgs(sess, crates[k].dylib.v)
                    ELSE <<>>])]

\* add_upstream_rust_crates: the arguments it pushes, the errors it records
\* and whether its assert failed; members[cnum] are the files of the rlib
\* of crate cnum
add_upstream_rust_crates(sess, dylib, tmpdir, members) ==
    LET static == get_used_crates(sess.cstore, "RequireStatic")
        fallback == dynamic_fallback(sess, get_used_crates(sess.cstore, "RequireDynamic"))
    IN  IF ~dylib /\ ~sess.prefer_dynamic /\ \A k \in 1..Len(static) : static[k].path.some
        THEN [failed |-> FALSE,
              errors |-> <<>>,
              copies |-> IF sess.lto
                         THEN [k \in 1..Len(static) |->
                                 LtoCopy(sess, tmpdir, static[k].cnum, static[k].path.v,
                                         members[static[k].cnum])]
                         ELSE <<>>,
              args |-> Concat([k \in 1..Len(static) |->
                         StaticCrateArgs(sess, tmpdir, static[k].cnum, static[k].path.v,
                                         members[static[k].cnum])])]
        ELSE IF lto_assert_fails(sess)
        THEN [failed |-> TRUE, errors |-> <<>>, copies |-> <<>>, args |-> <<>>]
        ELSE [failed |-> FALSE,
              copies |-> <<>>,
              errors |-> fallback.errors,
              args |-> fallback.args]

\* add_upstream_native_libraries passing a static library on as -l<name>
add_upstream_native_libraries_static_too(sess) ==
    LET libs == Concat([k \in 1..Len(sess.cstore.crates) |->
                    get_native_libraries(sess.cstore, sess.cstore.crates[k].cnum)])
    IN  [bug |-> FALSE,
         args |-> Concat([i \in 1..Len(libs) |->
                    IF libs[i].kind = "NativeFramework"
                    THEN <<Arg("upstream_native", <<"-", "f", "r", "a", "m", "e", "w", "o", "r", "k">>),
                           Arg("upstream_native", libs[i].name)>>
                    ELSE <<Arg("upstream_native", <<"-", "l">> \o libs[i].name)>>])]

\* add_upstream_native_libraries: the arguments, and whether sess.bug was
\* hit; sess.bug ends the loop at the first static library
add_upstream_native_libraries(sess) ==
    LET libs == Concat([k \in 1..Len(sess.cstore.crates) |->
                    get_native_libraries(sess.cstore, sess.cstore.crates[k].cnum)])
        static == {i \in 1..Len(libs) : libs[i].kind = "NativeStatic"}
        stop == IF static = {} THEN Len(libs) + 1
                ELSE CHOOSE i \in static : \A j \in static : i <= j
    IN  [bug |-> static # {},
         args |-> Concat([i \in 1..(stop - 1) |->
                    IF libs[i].kind = "NativeUnknown"
                    THEN <<Arg("upstream_native", <<"-", "l">> \o libs[i].name)>>
                    ELSE IF libs[i].kind = "NativeFramework"
                    THEN <<Arg("upstream_native", <<"-", "f", "r", "a", "m", "e", "w", "o", "r", "k">>),
                           Arg("upstream_native", libs[i].name)>>
                    ELSE <<>>])]

\* rpath::get_rpath_flags: none on Windows, else one rpath flag
get_rpath_flags(sess, out_filename) ==
    IF sess.os = "OsWin32" THEN <<>>
    ELSE <<Arg("rpath", <<"-", "W", "l", ",", "-", "r", "p", "a", "t", "h", ",", "$", "O", "R", "I", "G", "I", "N", "/", ".", ".", "/", "l", "i", "b">>)>>

\* link_args with the upstream crates ahead of the local native libraries
link_args_crates_first(sess, dylib, tmpdir, obj_filename, out_filename, members) ==
    LET crates == add_upstream_rust_crates(sess, dylib, tmpdir, members)
        natives == add_upstream_native_libraries(sess)
        before ==
            <<Arg("stage", <<"-", "L">> \o sess.target_lib_path)>>
            \o <<Arg("output", <<"-", "o">>), Arg("output", out_filename),
                 Arg("object", obj_filename)>>
            \o (IF dylib
                THEN <<Arg("metadata", with_extension(obj_filename, <<"m", "e", "t", "a", "d", "a", "t", "a", ".", "o">>))>>
                ELSE <<>>)
            \o (IF sess.os = "OsLinux"
                THEN <<Arg("linux", <<"-", "W", "l", ",", "-", "-", "a", "s", "-", "n", "e", "e", "d", "e", "d">>)>>
                     \o (IF sess.optimize \in {"Default", "Aggressive"}
                         THEN <<Arg("linux", <<"-", "W", "l", ",", "-", "O", "1">>)>> ELSE <<>>)
                ELSE <<>>)
            \o crates.args
            \o add_local_native_libraries(sess)
        after ==
            (IF dylib
             THEN IF sess.os = "OsMacos"
                  THEN <<Arg("mode", <<"-", "d", "y", "n", "a", "m", "i", "c", "l", "i", "b">>), Arg("mode", <<"-", "W", "l", ",", "-", "d", "y", "l", "i", "b">>),
                         Arg("mode", <<"-", "W", "l", ",", "-", "i", "n", "s", "t", "a", "l", "l", "_", "n", "a", "m", "e", ",", "@", "r", "p", "a", "t", "h", "/">> \o filename(out_filename))>>
                  ELSE <<Arg("mode", <<"-", "s", "h", "a", "r", "e", "d">>)>>
             ELSE <<>>)
            \o (IF sess.os = "OsFreebsd"
                THEN <<Arg("freebsd", <<"-", "L", "/", "u", "s", "r", "/", "l", "o", "c", "a", "l", "/", "l", "i", "b">>),
                       Arg("freebsd", <<"-", "L", "/", "u", "s", "r", "/", "l", "o", "c", "a", "l", "/", "l", "i", "b", "/", "g", "c", "c", "4", "6">>),
                       Arg("freebsd", <<"-", "L", "/", "u", "s", "r", "/", "l", "o", "c", "a", "l", "/", "l", "i", "b", "/", "g", "c", "c", "4", "4">>)>>
                ELSE <<>>)
            \o <<Arg("morestack", <<"-", "l", "m", "o", "r", "e", "s", "t", "a", "c", "k">>)>>
            \o get_rpath_flags(sess, out_filename)
            \o [k \in 1..Len(sess.linker_args) |-> Arg("linker_args", sess.linker_args[k])]
            \o [k \in 1..Len(sess.cstore.used_link_args) |->
                   Arg("used_link_args", sess.cstore.used_link_args[k])]
    IN  IF crates.failed
        THEN [fatal |-> "assertion failed: !sess.lto()", errors |-> <<>>,
              copies |-> crates.copies, args |-> before]
        ELSE IF natives.bug
        THEN [fatal |-> "statics shouldn't be propagated", errors |-> crates.errors,
              copies |-> crates.copies, args |-> before \o natives.args]
        ELSE [fatal |-> "none", errors |-> crates.errors,
              copies |-> crates.copies, args |-> before \o natives.args \o after]

\* link_args: what is fatal in it ("none" when nothing is), the errors it
\* records and the arguments
link_args(sess, dylib, tmpdir, obj_filename, out_filename, members) ==
    LET crates == add_upstream_rust_crates(sess, dylib, tmpdir, members)
        natives == add_upstream_native_libraries(sess)
        before ==
            <<Arg("stage", <<"-", "L">> \o sess.target_lib_path)>>
            \o <<Arg("output", <<"-", "o">>), Arg("output", out_filename),
                 Arg("object", obj_filename)>>
            \o (IF dylib
                THEN <<Arg("metadata", with_extension(obj_filename, <<"m", "e", "t", "a", "d", "a", "t", "a", ".", "o">>))>>
                ELSE <<>>)
            \o (IF sess.os = "OsLinux"
                THEN <<Arg("linux", <<"-", "W", "l", ",", "-", "-", "a", "s", "-", "n", "e", "e", "d", "e", "d">>)>>
                     \o (IF sess.optimize \in {"Default", "Aggressive"}
                         THEN <<Arg("linux", <<"-", "W", "l", ",", "-", "O", "1">>)>> ELSE <<>>)
                ELSE <<>>)
            \o add_local_native_libraries(sess)
            \o crates.args
        after ==
            (IF dylib
             THEN IF sess.os = "OsMacos"
                  THEN <<Arg("mode", <<"-", "d", "y", "n", "a", "m", "i", "c", "l", "i", "b">>), Arg("mode", <<"-", "W", "l", ",", "-", "d", "y", "l", "i", "b">>),
                         Arg("mode", <<"-", "W", "l", ",", "-", "i", "n", "s", "t", "a", "l", "l", "_", "n", "a", "m", "e", ",", "@", "r", "p", "a", "t", "h", "/">> \o filename(out_filename))>>
                  ELSE <<Arg("mode", <<"-", "s", "h", "a", "r", "e", "d">>)>>
             ELSE <<>>)
            \o (IF sess.os = "OsFreebsd"
                THEN <<Arg("freebsd", <<"-", "L", "/", "u", "s", "r", "/", "l", "o", "c", "a", "l", "/", "l", "i", "b">>),
                       Arg("freebsd", <<"-", "L", "/", "u", "s", "r", "/", "l", "o", "c", "a", "l", "/", "l", "i", "b", "/", "g", "c", "c", "4", "6">>),
                       Arg("freebsd", <<"-", "L", "/", "u", "s", "r", "/", "l", "o", "c", "a", "l", "/", "l", "i", "b", "/", "g", "c", "c", "4", "4">>)>>
                ELSE <<>>)
            \o <<Arg("morestack", <<"-", "l", "m", "o", "r", "e", "s", "t", "a", "c", "k">>)>>
            \o get_rpath_flags(sess, out_filename)
            \o [k \in 1..Len(sess.linker_args) |-> Arg("linker_args", sess.linker_args[k])]
            \o [k \in 1..Len(sess.cstore.used_link_args) |->
                   Arg("used_link_args", sess.cstore.used_link_args[k])]
    IN  IF crates.failed
        THEN [fatal |-> "assertion failed: !sess.lto()", errors |-> <<>>,
              copies |-> crates.copies, args |-> before]
        ELSE IF natives.bug
        THEN [fatal |-> "statics shouldn't be propagated", errors |-> crates.errors,
              copies |-> crates.copies, args |-> before \o natives.args]
        ELSE [fatal |-> "none", errors |-> crates.errors,
              copies |-> crates.copies, args |-> before \o natives.args \o after]

\* the exit statuses of a subprocess: 0 and one other
ExitStatuses == {0, 1}

\* ProcessExit::success
success(status) == status = 0

\* what the failing linker wrote to its standard output and error
ProcessOutput == <<<<"l", "d", ":", " ", "e", "r", "r", "o", "r">>>>

\* link_natively reporting a failed link without the notes
linking_failed_bare(cc_prog, cc_args, output) ==
    [errors |-> <<Diag("linking failed", cc_prog)>>, notes |-> <<>>]

\* link_natively on a linker that did not succeed: the error, and the notes
\* with the arguments and with what the process wrote
linking_failed(cc_prog, cc_args, output) ==
    [errors |-> <<Diag("linking failed", cc_prog)>>,
     notes |-> <<[msg |-> "arguments", prog |-> cc_prog,
                  what |-> [k \in 1..Len(cc_args) |-> cc_args[k].s]],
                 [msg |-> "output", prog |-> cc_prog, what |-> output]>>]

\* link_natively past a successful link running dsymutil on every target
runs_dsymutil_always(sess) == TRUE

\* link_natively past a successful link: whether dsymutil is run; the
\* value run::process_status returns is not looked at
runs_dsymutil(sess) == sess.os = "OsMacos" /\ sess.debuginfo

\* link_binary removing the temporaries whatever the session says
link_binary_unlinked_always(sess, obj_filename) ==
    {obj_filename, with_extension(obj_filename, <<"m", "e", "t", "a", "d", "a", "t", "a", ".", "o">>)}

\* the files link_binary removes after its loop over the outputs
link_binary_unlinked(sess, obj_filename) ==
    IF sess.save_temps THEN {}
    ELSE {obj_filename, with_extension(obj_filename, <<"m", "e", "t", "a", "d", "a", "t", "a", ".", "o">>)}

\* link_natively: the check that never lets the linker run on errors
NeverAbortsBeforeLinking(errors) == FALSE

\* link_natively: sess.abort_if_errors() before the linker is invoked
AbortsBeforeLinking(errors) == abort_if_errors(errors)

(***************************************************************************)
(* The sessions and crate stores of the model.                             *)
(***************************************************************************)
TargetOSes == {"OsWin32", "OsMacos", "OsLinux", "OsAndroid", "OsFreebsd"}

OutputStyles == {"OutputRlib", "OutputDylib", "OutputStaticlib", "OutputExecutable"}

CrateNames == <<<<"a">>, <<"b">>, <<"c">>, <<"d">>>>

\* upstream crate cnum of a crate store, with or without an rlib and a
\* dynamic library on disk
UpstreamCrate(os, cnum, has_rlib, has_dylib, native_libs) ==
    [cnum |-> cnum,
     name |-> CrateNames[cnum],
     rlib |-> IF has_rlib THEN Some(<<"d", "e", "p", "s", "/", "l", "i", "b">> \o CrateNames[cnum] \o <<".", "r", "l", "i", "b">>) ELSE None,
     dylib |-> IF has_dylib
               THEN Some(<<"d", "e", "p", "s", "/">> \o DLL_PREFIX(os) \o CrateNames[cnum] \o DLL_SUFFIX(os))
               ELSE None,
     native_libs |-> native_libs]

\* the native libraries of the upstream crates: none; dynamic ones on the
\* first two crates; a static one on the first crate
NativeLibPatterns ==
    { [cnum \in 1..(MaxCrates + 1) |-> <<>>],
      [cnum \in 1..(MaxCrates + 1) |->
          IF cnum = 1 THEN <<[kind |-> "NativeUnknown", name |-> <<"m">>],
                             [kind |-> "NativeFramework", name |-> <<"C", "o", "c", "o", "a">>]>>
          ELSE IF cnum = 2 THEN <<[kind |-> "NativeUnknown", name |-> <<"z">>]>>
          ELSE <<>>],
      [cnum \in 1..(MaxCrates + 1) |->
          IF cnum = 1 THEN <<[kind |-> "NativeStatic", name |-> <<"s">>]>> ELSE <<>>] }

\* a loaded crate was found as an rlib, as a dynamic library or as both
CrateSources == {<<TRUE, TRUE>>, <<TRUE, FALSE>>, <<FALSE, TRUE>>}

UsedLibraries ==
    <<[kind |-> "NativeStatic", name |-> <<"l", "s">>],
      [kind |-> "NativeUnknown", name |-> <<"l", "u">>],
      [kind |-> "NativeFramework", name |-> <<"l", "f">>]>>

CrateStore(os, n, has, libs) ==
    [crates |-> [k \in 1..n |-> UpstreamCrate(os, k, has[k][1], has[k][2], libs[k])],
     used_libraries |-> UsedLibraries,
     used_link_args |-> <<<<"-", "l", "a", "t", "t", "r">>>>]

CrateStores(os) ==
    UNION {{CrateStore(os, n, has, libs) :
                has \in [1..n -> CrateSources], libs \in NativeLibPatterns} :
           n \in 0..MaxCrates}

\* the files of the rlib of each upstream crate: its own object, metadata
\* and bytecode, with or without the object of a bundled native library
RlibMemberChoices(name) ==
    {<<name \o <<".", "o">>, METADATA_FILENAME, name \o <<".", "b", "c">>>>,
     <<name \o <<".", "o">>, <<"n", "a", "t", "i", "v", "e", ".", "o">>, METADATA_FILENAME, name \o <<".", "b", "c">>>>}

\* the rlibs are opened only under LTO; without it one choice stands for all
RlibMembers(lto, cstore) ==
    LET n == Len(cstore.crates)
        all == UNION {RlibMemberChoices(cstore.crates[k].name) : k \in 1..n}
        files == {m \in [1..n -> all] :
                    \A k \in 1..n : m[k] \in RlibMemberChoices(cstore.crates[k].name)}
    IN  IF lto THEN files ELSE {CHOOSE m \in files : TRUE}

\* what each target reads of the options: debuginfo on Mac OS, the
\* optimisation level on Linux, the NDK path on Android; a linker option
\* on Linux and on Android
TargetOptions ==
    {v \in [os : TargetOSes, debuginfo : BOOLEAN, optimize : {"No", "Default"},
            linker : {None, Some(<<"c", "l", "a", "n", "g">>)},
            android_cross_path : {None, Some(<<"/", "n", "d", "k">>)}] :
        /\ v.debuginfo => v.os = "OsMacos"
        /\ v.optimize # "No" => v.os = "OsLinux" /\ ~v.linker.some
        /\ v.linker.some => v.os \in {"OsLinux", "OsAndroid"} /\ ~v.android_cross_path.some
        /\ v.android_cross_path.some => v.os = "OsAndroid"}

Session(v, lto, prefer_dynamic, save_temps, cstore) ==
    [os |-> v.os,
     lto |-> lto,
     prefer_dynamic |-> prefer_dynamic,
     save_temps |-> save_temps,
     debuginfo |-> v.debuginfo,
     optimize |-> v.optimize,
     linker |-> v.linker,
     android_cross_path |-> v.android_cross_path,
     cc_args |-> <<<<"-", "m", "6", "4">>>>,
     linker_args |-> <<<<"-", "s">>>>,
     addl_lib_search_paths |-> <<<<"e", "x", "t">>>>,
     target_lib_path |-> <<"r", "u", "s", "t", "l", "i", "b">>,
     cstore |-> cstore]

\* the link metadata build_link_meta makes of the package identities
LinkMetas ==
    {build_link_meta(Some(p), None, <<>>).link_meta.v : p \in PkgIdSamples}

OutPaths == {<<"b", "u", "i", "l", "d", "/", "b", "i", "n", "/", "d", "e", "m", "o">>, <<"d", "e", "m", "o">>}

DefaultLinkMeta == build_link_meta(None, Some(<<"d", "e", "m", "o">>), <<>>).link_meta.v

\* the options that are at their defaults when none is given
DefaultOptions(os) ==
    [os |-> os, debuginfo |-> FALSE, optimize |-> "No", linker |-> None,
     android_cross_path |-> IF os = "OsAndroid" THEN Some(<<"/", "n", "d", "k">>) ELSE None]

\* the sessions of the model: every crate store under every target, LTO
\* and linkage preference, with default options, one link metadata and one
\* output path; and every link metadata, output path and option under
\* every target, with no upstream crate
LinkConfigs ==
    UNION {{[sess |-> Session(DefaultOptions(os), lto, prefer_dynamic, FALSE, cstore),
             lm |-> DefaultLinkMeta,
             out_path |-> <<"b", "u", "i", "l", "d", "/", "b", "i", "n", "/", "d", "e", "m", "o">>] :
                lto \in BOOLEAN, prefer_dynamic \in BOOLEAN, cstore \in CrateStores(os)} :
           os \in TargetOSes}
    \cup
    {[sess |-> Session(v, FALSE, FALSE, save_temps, CrateStore(v.os, 0, <<>>, <<>>)),
      lm |-> l, out_path |-> o] :
        v \in TargetOptions, save_temps \in BOOLEAN, l \in LinkMetas, o \in OutPaths}

(***************************************************************************)
(* State.                                                                  *)
(***************************************************************************)
VARIABLES
    m_pc,       \* the pure function being applied: "idle", "sanitize", "mangle", "exported_name"
    m_in,       \* its input
    m_out,      \* its result
    sym_pc,     \* "build_link_meta", then "trans" (or "failed")
    ccx,        \* the CrateContext: link_meta, symbol_hasher, type_hashcodes
    sym_log,    \* the symbol-naming calls made so far and what each returned
    sess,       \* the Session: target, options and crate store
    lm,         \* the LinkMeta given to link_binary
    out_path,   \* the out_filename given to link_binary
    outputs,    \* the output styles link_binary has still to produce
    pc,         \* where link_binary is: "link_binary", "link_rlib", "link_staticlib",
                \* "link_natively", "run_linker", "done", "failed" ("idle": not linking)
    cur,        \* the output style being produced and its out_filename
    cc,         \* the linker program and arguments of the current output
    errors,     \* what Session::err recorded
    warnings,   \* what Session::warn recorded
    notes,      \* what Session::note recorded
    fatal,      \* the message the task failed with, "none" while it runs
    procs,      \* the processes spawned for the current output
    archive,    \* the operations on the archive of the current output
    unlinked    \* the files removed so far

mangleVars == <<m_pc, m_in, m_out>>
symVars == <<sym_pc, ccx, sym_log>>
linkVars == <<sess, lm, out_path, outputs, pc, cur, cc, errors, warnings, notes, fatal,
              procs, archive, unlinked>>
vars == <<mangleVars, symVars, linkVars>>

MangleInit == m_pc = "idle" /\ m_in = NoInput /\ m_out = <<>>

SymInit ==
    /\ sym_pc = "build_link_meta"
    /\ ccx = [link_meta |-> NoLinkMeta,
              symbol_hasher |-> <<>>,
              type_hashcodes |-> [t \in TypeIds |-> None]]
    /\ sym_log = <<>>

NoCur ==
    [output |-> "none", out_filename |-> <<>>,
     obj_is_writeable |-> TRUE, out_is_writeable |-> TRUE]
NoCc == [prog |-> <<>>, args |-> <<>>, copies |-> <<>>]

LinkStart(cfg, styles, at) ==
    /\ sess = cfg.sess /\ lm = cfg.lm /\ out_path = cfg.out_path
    /\ outputs = styles
    /\ pc = at
    /\ cur = NoCur /\ cc = NoCc
    /\ errors = <<>> /\ warnings = <<>> /\ notes = <<>> /\ fatal = "none"
    /\ procs = <<>> /\ archive = <<>> /\ unlinked = {}

\* symbol naming happens before link_binary is called
NotLinking ==
    LinkStart([sess |-> Session(DefaultOptions("OsLinux"), FALSE, FALSE, FALSE,
                                CrateStore("OsLinux", 0, <<>>, <<>>)),
               lm |-> NoLinkMeta, out_path |-> <<>>], <<>>, "idle")

NamingInit == MangleInit /\ SymInit /\ NotLinking

\* the outputs of a session: up to MaxOutputs different styles, in any order
OutputLists ==
    {styles \in SeqsUpTo(OutputStyles, MaxOutputs) :
        \A i, j \in 1..Len(styles) : i # j => styles[i] # styles[j]}

\* link_binary is entered with the outputs of the session, or with the
\* executable alone under --test
LinkInit ==
    \E cfg \in LinkConfigs, test \in BOOLEAN, styles \in OutputLists :
        LinkStart(cfg, EffectiveOutputs(test, styles), "link_binary")

Init == MangleInit /\ SymInit /\ LinkInit

(***************************************************************************)
(* The pure functions, applied to every input of the model.                *)
(***************************************************************************)
CallSanitize ==
    /\ m_pc = "idle"
    /\ \E s \in SanitizeInputs :
        /\ m_in' = [NoInput EXCEPT !.s = s]
        /\ m_out' = sanitize(s)
    /\ m_pc' = "sanitize"
    /\ UNCHANGED <<symVars, linkVars>>

CallMangle ==
    /\ m_pc = "idle"
    /\ \E i \in MangleInputs :
        /\ m_in' = i
        /\ m_out' = mangle(i.ss, i.hash, i.vers)
    /\ m_pc' = "mangle"
    /\ UNCHANGED <<symVars, linkVars>>

CallExportedName ==
    /\ m_pc = "idle"
    /\ \E i \in ExportedInputs :
        /\ m_in' = i
        /\ m_out' = exported_name(i.ss, i.hash.v, i.vers.v)
    /\ m_pc' = "exported_name"
    /\ UNCHANGED <<symVars, linkVars>>

Return ==
    /\ m_pc # "idle"
    /\ m_pc' = "idle" /\ m_in' = NoInput /\ m_out' = <<>>
    /\ UNCHANGED <<symVars, linkVars>>

MangleNext == CallSanitize \/ CallMangle \/ CallExportedName \/ Return

SpecMangle == NamingInit /\ [][MangleNext]_vars

(***************************************************************************)
(* Symbol naming in one compilation session.                               *)
(***************************************************************************)
LogEntry(op, path, t, r) ==
    [op |-> op, path |-> path, t |-> t, name |-> r.name, hash |-> r.hash, ran |-> r.ran]

BuildLinkMeta ==
    /\ sym_pc = "build_link_meta"
    /\ \E attr_pkgid \in {None} \cup {Some(p) : p \in PkgIdSamples}, stem \in StemSamples :
        LET r == build_link_meta(attr_pkgid, stem, ccx.symbol_hasher)
        IN  IF r.fatal
            THEN sym_pc' = "failed" /\ UNCHANGED ccx
            ELSE /\ sym_pc' = "trans"
                 /\ ccx' = [ccx EXCEPT !.link_meta = r.link_meta.v,
                                       !.symbol_hasher = r.symbol_hasher]
    /\ UNCHANGED <<sym_log, mangleVars, linkVars>>

MangleExportedName ==
    /\ sym_pc = "trans" /\ Len(sym_log) < MaxCalls
    /\ \E path \in SymPaths, t \in TypeIds :
        LET r == mangle_exported_name(ccx, path, t)
        IN  /\ ccx' = r.ccx
            /\ sym_log' = Append(sym_log, LogEntry("exported", path, t, r))
    /\ UNCHANGED <<sym_pc, mangleVars, linkVars>>

MangleInternalNameByTypeOnly ==
    /\ sym_pc = "trans" /\ Len(sym_log) < MaxCalls
    /\ \E t \in TypeIds :
        LET r == mangle_internal_name_by_type_only(ccx, t, <<"g", "l", "u", "e">>)
        IN  /\ ccx' = r.ccx
            /\ sym_log' = Append(sym_log, LogEntry("type_only", <<>>, t, r))
    /\ UNCHANGED <<sym_pc, mangleVars, linkVars>>

MangleInternalNameByPath ==
    /\ sym_pc = "trans" /\ Len(sym_log) < MaxCalls
    /\ \E path \in SymPaths :
        LET r == mangle_internal_name_by_path(ccx, path)
        IN  /\ ccx' = r.ccx
            /\ sym_log' = Append(sym_log, LogEntry("path", path, "none", r))
    /\ UNCHANGED <<sym_pc, mangleVars, linkVars>>

SymNext ==
    \/ BuildLinkMeta
    \/ MangleExportedName
    \/ MangleInternalNameByTypeOnly
    \/ MangleInternalNameByPath

SpecSym == NamingInit /\ [][SymNext]_vars

(***************************************************************************)
(* link_binary.                                                            *)
(***************************************************************************)
\* link_binary_output, up to the call of the function that links
LinkBinaryOutput ==
    /\ pc = "link_binary" /\ outputs # <<>>
    /\ LET output == Head(outputs)
           out_filename == OutFilename(sess, output, out_path, lm)
       IN  /\ outputs' = Tail(outputs)
           /\ \E obj_stat, out_stat \in FileStats :
                LET obj_is_writeable == is_writeable(obj_stat)
                    out_is_writeable == is_writeable(out_stat)
                    failure == WriteableFatal(obj_is_writeable, out_is_writeable)
                IN  /\ cur' = [output |-> output, out_filename |-> out_filename,
                               obj_is_writeable |-> obj_is_writeable,
                               out_is_writeable |-> out_is_writeable]
                    /\ IF failure # "none"
                       THEN pc' = AfterFatal /\ fatal' = failure
                       ELSE /\ pc' = IF output = "OutputRlib" THEN "link_rlib"
                                     ELSE IF output = "OutputStaticlib"
                                     THEN "link_staticlib"
                                     ELSE "link_natively"
                            /\ fatal' = fatal
    /\ cc' = NoCc /\ procs' = <<>> /\ archive' = <<>>
    /\ UNCHANGED <<sess, lm, out_path, errors, warnings, notes, unlinked, mangleVars, symVars>>

LinkRlib ==
    /\ pc = "link_rlib"
    /\ archive' = link_rlib(sess, TRUE, ObjFilename, cur.out_filename)
    /\ unlinked' = unlinked \cup link_rlib_unlinked(sess, TRUE, ObjFilename)
    /\ pc' = "link_binary"
    /\ UNCHANGED <<sess, lm, out_path, outputs, cur, cc, errors, warnings, notes, fatal, procs,
                   mangleVars, symVars>>

LinkStaticlib ==
    /\ pc = "link_staticlib"
    /\ LET r == link_staticlib(sess, ObjFilename, cur.out_filename)
       IN  /\ archive' = r.archive
           /\ errors' = errors \o r.errors
           /\ warnings' = warnings \o r.warnings
    /\ pc' = "link_binary"
    /\ UNCHANGED <<sess, lm, out_path, outputs, cur, cc, notes, fatal, procs, unlinked,
                   mangleVars, symVars>>

\* link_natively, up to the invocation of the linker
LinkNatively ==
    /\ pc = "link_natively"
    /\ LET dylib == cur.output = "OutputDylib"
           cc_prog == get_cc_prog(sess)
       IN  IF cc_prog.fatal
           THEN /\ pc' = AfterFatal /\ fatal' = "need Android NDK path for linking"
                /\ UNCHANGED <<cc, errors>>
           ELSE \E members \in RlibMembers(sess.lto, sess.cstore) :
                  LET r == link_args(sess, dylib, TmpDir, ObjFilename, cur.out_filename,
                                     members)
                      errs == errors \o r.errors
                  IN  /\ cc' = [prog |-> cc_prog.prog,
                                args |-> [k \in 1..Len(sess.cc_args) |->
                                             Arg("target", sess.cc_args[k])] \o r.args,
                                copies |-> r.copies]
                      /\ errors' = errs
                      /\ IF r.fatal # "none"
                         THEN pc' = AfterFatal /\ fatal' = r.fatal
                         ELSE IF AbortsBeforeLinking(errs)
                         THEN pc' = AfterFatal /\ fatal' = "aborting due to previous errors"
                         ELSE pc' = "run_linker" /\ fatal' = fatal
    /\ UNCHANGED <<sess, lm, out_path, outputs, cur, warnings, notes, procs, archive, unlinked,
                   mangleVars, symVars>>

\* link_natively, from the invocation of the linker on
RunLinker ==
    /\ pc = "run_linker"
    /\ \E status \in ExitStatuses, dsym_status \in ExitStatuses :
        LET linker == [prog |-> cc.prog, errs |-> Len(errors), status |-> status]
            dsymutil == [prog |-> <<"d", "s", "y", "m", "u", "t", "i", "l">>, errs |-> Len(errors),
                         status |-> dsym_status]
        IN  IF ~success(status)
            THEN LET r == linking_failed(cc.prog, cc.args, ProcessOutput)
                 IN  /\ procs' = <<linker>>
                     /\ errors' = errors \o r.errors
                     /\ notes' = notes \o r.notes
                     /\ pc' = AfterFatal /\ fatal' = "aborting due to previous errors"
            ELSE /\ procs' = IF runs_dsymutil(sess) THEN <<linker, dsymutil>> ELSE <<linker>>
                 /\ pc' = "link_binary"
                 /\ UNCHANGED <<errors, notes, fatal>>
    /\ UNCHANGED <<sess, lm, out_path, outputs, cur, cc, warnings, archive, unlinked,
                   mangleVars, symVars>>

\* link_binary after its last output: the temporaries are removed
LinkBinaryFinish ==
    /\ pc = "link_binary" /\ outputs = <<>>
    /\ unlinked' = unlinked \cup link_binary_unlinked(sess, ObjFilename)
    /\ pc' = "done"
    /\ UNCHANGED <<sess, lm, out_path, outputs, cur, cc, errors, warnings, notes, fatal, procs,
                   archive, mangleVars, symVars>>

Next ==
    \/ LinkBinaryOutput
    \/ LinkRlib
    \/ LinkStaticlib
    \/ LinkNatively
    \/ RunLinker
    \/ LinkBinaryFinish

Spec == Init /\ [][Next]_vars

(***************************************************************************)
(* The claims.                                                             *)
(***************************************************************************)
\* the characters gas accepts in a symbol: A-Z a-z 0-9 _ . $
GasChars ==
    {AsciiTable[i] : i \in (17..26) \cup (34..59) \cup (66..91)} \cup {"_", ".", "$"}

AsciiLetters == {AsciiTable[i] : i \in (34..59) \cup (66..91)}

LegalSymbol(s) ==
    /\ \A i \in 1..Len(s) : s[i] \in GasChars
    /\ s[1] = "_" \/ s[1] \in AsciiLetters

LenPrefixed(x) == DecStr(Len(x)) \o x

OptSegment(o) == IF o.some THEN LenPrefixed(sanitize(o.v)) ELSE <<>>

\* the hash string of an input; none and the empty string are both no hash
HashString(i) == IF i.hash.some THEN i.hash.v ELSE <<>>

HashSegment(i) ==
    IF HashString(i) # <<>> THEN LenPrefixed(sanitize(HashString(i))) ELSE <<>>

PathSegments(ss) == Concat([k \in 1..Len(ss) |-> LenPrefixed(sanitize(ss[k].s))])

SanitizedSegs(ss) == [k \in 1..Len(ss) |-> sanitize(ss[k].s)]

HasTagged(ss) == \E k \in 1..Len(ss) : ss[k].tag = "path_pretty_name"

\* the two characters of each disambiguator of the model, worked out by hand:
\* 1 and 62 give b and a; 65536 and 61 give c and 9; 4294967295 gives d
ExpectedExtraChars(extra) ==
    IF extra = <<0, 0, 0, 0>> THEN <<"a", "a">>
    ELSE IF extra = <<0, 1, 0, 62>> THEN <<"b", "a">>
    ELSE IF extra = <<1, 0, 0, 61>> THEN <<"c", "9">>
    ELSE <<"d", "d">>

\* the hash string with the characters of every tagged segment appended
ExtendedHash(i) ==
    HashString(i)
    \o Concat([k \in 1..Len(i.ss) |->
                  IF i.ss[k].tag = "path_pretty_name"
                  THEN ExpectedExtraChars(i.ss[k].extra) ELSE <<>>])

\* C3, as stated: two inputs of mangle (or of exported_name) that differ in
\* a sanitized path segment, in the hash or in the version give different
\* strings.
DifferentInputs(i, j) ==
    \/ SanitizedSegs(i.ss) # SanitizedSegs(j.ss)
    \/ HashString(i) # HashString(j)
    \/ i.vers # j.vers

C3_MangleInjective ==
    /\ m_pc = "mangle" =>
        \A j \in MangleInputs :
            DifferentInputs(m_in, j) => mangle(j.ss, j.hash, j.vers) # m_out
    /\ m_pc = "exported_name" =>
        \A j \in ExportedInputs :
            DifferentInputs(m_in, j) => exported_name(j.ss, j.hash.v, j.vers.v) # m_out

\* C4: every result of mangle and exported_name, and every non-empty result
\* of sanitize, has only characters of [A-Za-z0-9_.$] and begins with an
\* underscore or a letter, whatever the characters of the input.
C4_LegalCharacters ==
    /\ m_pc \in {"mangle", "exported_name"} => LegalSymbol(m_out)
    /\ (m_pc = "sanitize" /\ m_out # <<>>) => LegalSymbol(m_out)

\* C4 happens: mangle was given a path with an empty segment and a segment
\* holding a non-ASCII character and characters that need escaping
C4_Witness ==
    /\ m_pc = "mangle"
    /\ \E k \in 1..Len(m_in.ss) : m_in.ss[k].s = <<>>
    /\ \E k \in 1..Len(m_in.ss) : m_in.ss[k].s = <<"a", "<", "U+00E9", ">">>

\* C8, as stated: the mangled string is _ZN, each path segment as length and
\* sanitized text, the hash if supplied (a non-empty string) and the version
\* if supplied encoded the same way, then E.
C8_LengthPrefixedAsStated ==
    m_pc = "mangle" =>
        m_out = <<"_", "Z", "N">> \o PathSegments(m_in.ss)
                \o HashSegment(m_in) \o OptSegment(m_in.vers) \o <<"E">>

\* C8, amended: the mangled string is _ZN, each path segment as length and
\* sanitized text, then one segment for the hash string extended by the
\* disambiguator characters of the tagged segments when that string is not
\* empty, then the version if supplied, then E; the path mycrate, foo with
\* hash abcd1234 and version 1.0 begins _ZN7mycrate3foo and ends E.
C8_LengthPrefixed ==
    m_pc = "mangle" =>
        /\ m_out = <<"_", "Z", "N">> \o PathSegments(m_in.ss)
                   \o (IF ExtendedHash(m_in) # <<>>
                       THEN LenPrefixed(sanitize(ExtendedHash(m_in))) ELSE <<>>)
                   \o OptSegment(m_in.vers) \o <<"E">>
        /\ m_in = ExampleInput =>
            /\ starts_with(m_out, <<"_", "Z", "N", "7", "m", "y", "c", "r", "a", "t", "e",
                                    "3", "f", "o", "o">>)
            /\ m_out[Len(m_out)] = "E"

\* C8 happens: mangle was given the path, hash and version of the example
C8_Witness == m_pc = "mangle" /\ m_in = ExampleInput

\* C9, as stated: each tagged segment gives one more segment holding its two
\* characters, and a supplied hash is a further segment of its own.
C9_DisambiguatorAsStated ==
    (m_pc = "mangle" /\ HasTagged(m_in.ss)) =>
        m_out = <<"_", "Z", "N">> \o PathSegments(m_in.ss)
                \o Concat([k \in 1..Len(m_in.ss) |->
                              IF m_in.ss[k].tag = "path_pretty_name"
                              THEN LenPrefixed(sanitize(ExpectedExtraChars(m_in.ss[k].extra)))
                              ELSE <<>>])
                \o HashSegment(m_in) \o OptSegment(m_in.vers) \o <<"E">>

\* C9, amended: the two characters of each tagged segment (high and low 32
\* bits modulo 62 into the alphabet) are appended in path order to the hash
\* string, empty when no hash is supplied, and the whole is one segment
\* after the path segments; the hash has no segment of its own.
C9_Disambiguator ==
    (m_pc = "mangle" /\ HasTagged(m_in.ss)) =>
        /\ Len(ExtendedHash(m_in)) =
              Len(HashString(m_in))
              + 2 * Cardinality({k \in 1..Len(m_in.ss) : m_in.ss[k].tag = "path_pretty_name"})
        /\ m_out = <<"_", "Z", "N">> \o PathSegments(m_in.ss)
                   \o LenPrefixed(sanitize(ExtendedHash(m_in)))
                   \o OptSegment(m_in.vers) \o <<"E">>

\* C9 happens: mangle was given a hash and two tagged segments whose
\* disambiguators differ
C9_Witness ==
    /\ m_pc = "mangle"
    /\ m_in.hash = Some(<<"h", "1", "f">>)
    /\ Len(m_in.ss) = 2
    /\ m_in.ss[1].tag = "path_pretty_name" /\ m_in.ss[1].extra = <<1, 0, 0, 61>>
    /\ m_in.ss[2].tag = "path_pretty_name" /\ m_in.ss[2].extra = <<0, 1, 0, 62>>

\* C5, as stated: the crate hash of the link metadata is the digest of the
\* canonical string of the package identity cut to 16 hexadecimal characters.
C5_CrateHashTruncated ==
    sym_pc = "trans" =>
        /\ Len(ccx.link_meta.crate_hash) = 16
        /\ ccx.link_meta.crate_hash =
              SubSeq(result_str(pkgid_to_str(ccx.link_meta.pkgid)), 1, 16)

\* the calls of the log that went through get_symbol_hash
HashCalls == {i \in 1..Len(sym_log) : sym_log[i].op \in {"exported", "type_only"}}

\* C6: an entry of the type-hash cache is never removed or overwritten, two
\* calls for one type return the same hash, and symbol_hash runs at most
\* once for each type.
C6_CacheOnlyGrows ==
    /\ [][\A t \in TypeIds :
            ccx.type_hashcodes[t].some => ccx'.type_hashcodes[t] = ccx.type_hashcodes[t]]_vars
    /\ [](\A i, j \in HashCalls : sym_log[i].t = sym_log[j].t => sym_log[i].hash = sym_log[j].hash)
    /\ [](\A t \in TypeIds :
            Cardinality({i \in HashCalls : sym_log[i].t = t /\ sym_log[i].ran}) <= 1)

\* C6 happens: a type was asked for twice and the second call was a hit
C6_Witness ==
    \E i, j \in HashCalls :
        i < j /\ sym_log[i].t = sym_log[j].t /\ sym_log[i].ran /\ ~sym_log[j].ran

\* C7: every cached hash is what symbol_hash gives for that type and link
\* metadata on a fresh hasher, and mangle_exported_name returns one string
\* for one path and type however often it is called.
C7_StableExportedName ==
    /\ \A t \in TypeIds :
          ccx.type_hashcodes[t].some =>
              ccx.type_hashcodes[t].v = symbol_hash(<<>>, t, ccx.link_meta)
    /\ \A i, j \in 1..Len(sym_log) :
          (/\ sym_log[i].op = "exported" /\ sym_log[j].op = "exported"
           /\ sym_log[i].path = sym_log[j].path /\ sym_log[i].t = sym_log[j].t)
          => sym_log[i].name = sym_log[j].name

\* C7 happens: an exported name was asked for twice, and between the two
\* calls the symbol hash of another type was computed on the shared hasher
C7_Witness ==
    \E i, k, j \in 1..Len(sym_log) :
        /\ i < k /\ k < j
        /\ sym_log[i].op = "exported" /\ sym_log[j].op = "exported"
        /\ sym_log[i].path = sym_log[j].path /\ sym_log[i].t = sym_log[j].t
        /\ sym_log[k].t # sym_log[i].t /\ sym_log[k].ran
(***************************************************************************)
(* The link driver.                                                        *)
(***************************************************************************)
\* the arguments add_upstream_rust_crates pushed for the current output
UpstreamCrateArgs ==
    LET up == SelectSeq(cc.args, LAMBDA a : a.g = "upstream_crate")
    IN  [i \in 1..Len(up) |-> up[i].s]

IsStaticArchivePath(a) == ends_with(a, <<".", "r", "l", "i", "b">>)

IsDynamicLibraryArg(a) == starts_with(a, <<"-", "L">>) \/ starts_with(a, <<"-", "l">>)

\* the all-static arm is taken: an executable, no preference for dynamic
\* linking, every used crate with an rlib
AllStaticTaken ==
    /\ cur.output = "OutputExecutable"
    /\ ~sess.prefer_dynamic
    /\ \A k \in 1..Len(sess.cstore.crates) : sess.cstore.crates[k].rlib.some

\* C1: the arguments add_upstream_rust_crates emits are static-archive paths
\* only or -L<dir>/-l<name> arguments only, never both; when a used crate
\* has no static archive no static-archive path is emitted, and when the
\* all-static arm is taken no -L or -l argument is; without LTO the
\* all-static arm emits the rlib of every crate, and a fallback that finds
\* every dynamic library emits -L<dir> -l<name> for every crate.
C1_AllStaticOrAllDynamic ==
    cc # NoCc =>
        LET up == UpstreamCrateArgs
            crates == sess.cstore.crates
            static == {i \in 1..Len(up) : IsStaticArchivePath(up[i])}
            dynamic == {i \in 1..Len(up) : IsDynamicLibraryArg(up[i])}
        IN  /\ static \cup dynamic = 1..Len(up)
            /\ static = {} \/ dynamic = {}
            /\ (\E k \in 1..Len(crates) : ~crates[k].rlib.some) => static = {}
            /\ AllStaticTaken => dynamic = {}
            /\ AllStaticTaken /\ ~sess.lto =>
                  up = [k \in 1..Len(crates) |-> crates[k].rlib.v]
            /\ ~AllStaticTaken /\ pc = "run_linker" =>
                  up = Concat([k \in 1..Len(crates) |->
                          <<<<"-", "L", "d", "e", "p", "s">>, <<"-", "l">> \o crates[k].name>>])

\* an executable whose first crate has an rlib and whose second has only a
\* dynamic library: the fallback links both dynamically
C1_Witness ==
    /\ pc = "run_linker"
    /\ cur.output = "OutputExecutable"
    /\ ~sess.prefer_dynamic
    /\ Len(sess.cstore.crates) = 2
    /\ sess.cstore.crates[1].rlib.some
    /\ ~sess.cstore.crates[2].rlib.some
    /\ UpstreamCrateArgs = <<<<"-", "L", "d", "e", "p", "s">>, <<"-", "l", "a">>, <<"-", "L", "d", "e", "p", "s">>, <<"-", "l", "b">>>>

\* C2: the linker is never started while the session holds an error: every
\* process spawned for an output was spawned with no error recorded, and
\* link_binary is about to invoke the linker only with no error recorded.
C2_NoLinkerWhileErrors ==
    /\ \A i \in 1..Len(procs) : procs[i].errs = 0
    /\ pc = "run_linker" => errors = <<>>

\* a static-library output recorded a missing rlib, and a later native
\* output was aborted by link_natively before any process was spawned
C2_Witness ==
    /\ pc = "failed"
    /\ fatal = "aborting due to previous errors"
    /\ cur.output \in {"OutputDylib", "OutputExecutable"}
    /\ cc # NoCc
    /\ procs = <<>>
    /\ Len(errors) > 0
    /\ errors[1].msg = "could not find rlib for"

\* the base name and the directory C10 states
ExpectedBase ==
    lm.pkgid.name \o <<"-">> \o SubSeq(lm.crate_hash, 1, 8) \o <<"-">>
    \o (IF lm.pkgid.version.some THEN lm.pkgid.version.v ELSE <<"0", ".", "0">>)

ExpectedDir == IF out_path = <<"b", "u", "i", "l", "d", "/", "b", "i", "n", "/", "d", "e", "m", "o">> THEN <<"b", "u", "i", "l", "d", "/", "b", "i", "n", "/">> ELSE <<>>

ExpectedDllName ==
    IF sess.os = "OsWin32" THEN ExpectedBase \o <<".", "d", "l", "l">>
    ELSE IF sess.os = "OsMacos" THEN <<"l", "i", "b">> \o ExpectedBase \o <<".", "d", "y", "l", "i", "b">>
    ELSE <<"l", "i", "b">> \o ExpectedBase \o <<".", "s", "o">>

ExampleLinkMeta ==
    [pkgid |-> [path |-> <<>>, name |-> <<"f", "o", "o">>, version |-> Some(<<"0", ".", "0">>)],
     crate_hash |-> <<"a", "b", "c", "d", "e", "f", "0", "1", "2", "3", "4", "5", "6", "7", "8", "9">>]

\* C10: the file of an output is lib<base>.rlib, <prefix><base><suffix> of
\* the target, or lib<base>.a, in the directory of the requested path, and
\* the requested path itself for an executable, where base is
\* <name>-<first 8 characters of the crate hash>-<version or 0.0>; the base
\* of {foo, abcdef0123456789, 0.0} is foo-abcdef01-0.0.
C10_OutputFilenames ==
    /\ output_lib_filename(ExampleLinkMeta) = <<"f", "o", "o", "-", "a", "b", "c", "d", "e", "f", "0", "1", "-", "0", ".", "0">>
    /\ cur.output = "OutputRlib" =>
          cur.out_filename = ExpectedDir \o <<"l", "i", "b">> \o ExpectedBase \o <<".", "r", "l", "i", "b">>
    /\ cur.output = "OutputDylib" =>
          cur.out_filename = ExpectedDir \o ExpectedDllName
    /\ cur.output = "OutputStaticlib" =>
          cur.out_filename = ExpectedDir \o <<"l", "i", "b">> \o ExpectedBase \o <<".", "a">>
    /\ cur.output = "OutputExecutable" => cur.out_filename = out_path

\* a dynamic library for Windows, of a package with a version, requested
\* in a directory
C10_Witness ==
    /\ cur.output = "OutputDylib"
    /\ sess.os = "OsWin32"
    /\ lm.pkgid.version = Some(<<"1", ".", "0">>)
    /\ out_path = <<"b", "u", "i", "l", "d", "/", "b", "i", "n", "/", "d", "e", "m", "o">>
    /\ Len(cur.out_filename) = Len(<<"b", "u", "i", "l", "d", "/", "b", "i", "n", "/", "d", "e", "m", "o", "-">>) + 8 + Len(<<"-", "1", ".", "0", ".", "d", "l", "l">>)


\* C11: an output whose derived path or whose object file is not writeable
\* ends in a fatal error with no archive created, no linker arguments built
\* and no process spawned for it; an output that reached an assembly step
\* had both files writeable.
C11_UnwriteableIsFatal ==
    /\ (cur.output # "none" /\ ~(cur.obj_is_writeable /\ cur.out_is_writeable)) =>
          /\ pc = "failed"
          /\ fatal = IF ~cur.out_is_writeable THEN "output file is not writeable"
                     ELSE "object file is not writeable"
          /\ archive = <<>> /\ cc = NoCc /\ procs = <<>>
    /\ (archive # <<>> \/ cc # NoCc \/ procs # <<>>
        \/ pc \in {"link_rlib", "link_staticlib", "link_natively", "run_linker"}) =>
          cur.obj_is_writeable /\ cur.out_is_writeable

\* an rlib was produced, then the object file of the static library that
\* follows is found not writeable while its output path is
C11_Witness ==
    /\ cur.output = "OutputStaticlib"
    /\ cur.out_is_writeable /\ ~cur.obj_is_writeable
    /\ pc = "failed"
    /\ outputs = <<>>
    /\ unlinked # {}


\* C12, as stated: a fatal condition ends the assembly of one output only,
\* so when link_binary has ended, failed or not, every requested style was
\* attempted.
C12_EachOutputAttemptedAsStated ==
    pc \in {"done", "failed"} => outputs = <<>>

\* C12, amended: the requested styles are assembled in order; a fatal
\* condition in one of them ends link_binary there and then, the build has
\* failed, and nothing runs afterwards: the styles that follow are not
\* attempted; link_binary ends without a failure only with every style
\* attempted.
C12_FatalEndsLinkBinary ==
    /\ [](fatal # "none" <=> pc = "failed")
    /\ [](pc = "done" => outputs = <<>>)
    /\ [][pc # "failed"]_vars

\* the linker failed for the first of two outputs: the second is left
C12_Witness ==
    /\ pc = "failed"
    /\ fatal = "aborting due to previous errors"
    /\ Len(procs) = 1
    /\ Len(outputs) = 1


\* a static library has just been assembled
StaticlibAssembled == cur.output = "OutputStaticlib" /\ archive # <<>>

\* the upstream crates without an rlib, and those with one, in order
CratesLackingRlib ==
    SelectSeq(sess.cstore.crates, LAMBDA c : ~c.rlib.some)

CratesHavingRlib ==
    SelectSeq(sess.cstore.crates, LAMBDA c : c.rlib.some)

AddedRlibs == SelectSeq(archive, LAMBDA o : o.op = "add_rlib")

\* C13: in a static-library output every upstream crate without an rlib has
\* a "could not find rlib" error naming it recorded in the session and no
\* member in the archive, every crate with an rlib is added once, and no
\* linker arguments are built and no process is spawned.
C13_MissingRlibIsError ==
    /\ StaticlibAssembled =>
          /\ errors = [k \in 1..Len(CratesLackingRlib) |->
                          [msg |-> "could not find rlib for",
                           what |-> CratesLackingRlib[k].name]]
          /\ [k \in 1..Len(AddedRlibs) |-> AddedRlibs[k].name]
                = [k \in 1..Len(CratesHavingRlib) |-> CratesHavingRlib[k].name]
          /\ \A k \in 1..Len(AddedRlibs) : AddedRlibs[k].arg = CratesHavingRlib[k].rlib.v
    /\ cur.output = "OutputStaticlib" => cc = NoCc /\ procs = <<>>

\* a static library of two upstream crates, neither with an rlib
C13_Witness ==
    /\ StaticlibAssembled
    /\ Len(sess.cstore.crates) = 2
    /\ Len(errors) = 2
    /\ errors[2].what = <<"b">>
    /\ AddedRlibs = <<>>


\* the native libraries of every upstream crate, in crate and declaration
\* order
UpstreamNativeLibraries ==
    Concat([k \in 1..Len(sess.cstore.crates) |-> sess.cstore.crates[k].native_libs])

\* C14, as stated: a static-library output warns once for every native
\* library of every upstream crate, whatever its kind and whether or not the
\* rlib of the crate was found, and the warnings are not errors.
C14_WarningPerNativeLibrary ==
    StaticlibAssembled =>
        /\ [k \in 1..Len(warnings) |-> warnings[k].what]
              = [k \in 1..Len(UpstreamNativeLibraries) |-> UpstreamNativeLibraries[k].name]
        /\ Len(errors) = Len(CratesLackingRlib)


\* the Static-kind native libraries of the current crate, in order
LocalStaticLibraries ==
    SelectSeq(sess.cstore.used_libraries, LAMBDA l : l.kind = "NativeStatic")

\* the archive begins with its creation from the object file, then has one
\* add_native_library for each Static-kind library of the current crate
ArchiveBeginsWithObjects ==
    /\ Len(archive) >= 1 + Len(LocalStaticLibraries)
    /\ archive[1] = [op |-> "create", arg |-> ObjFilename]
    /\ \A k \in 1..Len(LocalStaticLibraries) :
          archive[1 + k] = [op |-> "add_native_library", arg |-> LocalStaticLibraries[k].name]

\* C15: the archive of an rlib is created from the object file, then gets
\* the Static-kind native libraries of the current crate and nothing of
\* another kind or of an upstream crate, then the metadata, then the
\* bytecode, so every add_file comes after every other operation; the
\* archive of a static library, built without a crate translation, gets
\* neither metadata nor bytecode.
C15_RlibOrder ==
    /\ (cur.output = "OutputRlib" /\ archive # <<>>) =>
          /\ ArchiveBeginsWithObjects
          /\ Len(archive) = Len(LocalStaticLibraries) + 3
          /\ archive[Len(archive) - 1] =
                [op |-> "add_file", arg |-> <<"b", "u", "i", "l", "d", "/", "m", "e", "t", "a", "d", "a", "t", "a">>]
          /\ archive[Len(archive)] =
                [op |-> "add_file", arg |-> <<"b", "u", "i", "l", "d", "/", "d", "e", "m", "o", ".", "b", "c">>]
    /\ StaticlibAssembled =>
          /\ ArchiveBeginsWithObjects
          /\ \A i \in 1..Len(archive) : archive[i].op # "add_file"
    /\ \A i, j \in 1..Len(archive) :
          (archive[i].op = "add_file" /\ archive[j].op # "add_file") => j < i

\* an rlib was assembled for a crate with a static native library
C15_Witness ==
    /\ cur.output = "OutputRlib"
    /\ Len(archive) = 4
    /\ archive[2].op = "add_native_library"
    /\ pc = "link_binary"


\* C16: in the all-static arm under LTO the object file <crate name>.o is
\* removed from a copy of each rlib in the temporary directory, the rlib
\* itself keeping its files; the path of the copy is an argument exactly
\* when a file ending in .o is left in it, and the path of the rlib itself
\* never is.
C16_LtoCopies ==
    (cc # NoCc /\ sess.lto /\ AllStaticTaken) =>
        LET crates == sess.cstore.crates
            up == UpstreamCrateArgs
            pushed == {up[i] : i \in 1..Len(up)}
        IN  /\ Len(cc.copies) = Len(crates)
            /\ \A k \in 1..Len(crates) :
                  LET copy == cc.copies[k]
                      own == crates[k].name \o <<".", "o">>
                  IN  /\ copy.src = crates[k].rlib.v
                      /\ copy.dst = <<"/", "t", "m", "p", "/", "r", "u", "s", "t", "c", "/", "l", "i", "b">>
                                     \o crates[k].name \o <<".", "r", "l", "i", "b">>
                      /\ copy.dst # copy.src
                      /\ \E i \in 1..Len(copy.src_files) : copy.src_files[i] = own
                      /\ \A i \in 1..Len(copy.dst_files) : copy.dst_files[i] # own
                      /\ \A f \in {copy.src_files[i] : i \in 1..Len(copy.src_files)} \ {own} :
                            \E i \in 1..Len(copy.dst_files) : copy.dst_files[i] = f
                      /\ copy.src \notin pushed
                      /\ copy.dst \in pushed <=>
                            \E i \in 1..Len(copy.dst_files) :
                                ends_with(copy.dst_files[i], <<".", "o">>)
            /\ pushed \subseteq {cc.copies[k].dst : k \in 1..Len(crates)}

\* an executable linked under LTO against two rlibs: the first holds only
\* the object of its crate and is left out, the second holds the object of
\* a native library too and its copy is passed
C16_Witness ==
    /\ pc = "run_linker"
    /\ sess.lto /\ AllStaticTaken
    /\ Len(sess.cstore.crates) = 2
    /\ Len(cc.copies[1].dst_files) = 2
    /\ UpstreamCrateArgs = <<<<"/", "t", "m", "p", "/", "r", "u", "s", "t", "c", "/", "l", "i", "b", "b", ".", "r", "l", "i", "b">>>>


\* C17: while LTO is enabled no -L<dir> or -l<name> argument is emitted for
\* an upstream crate; when the all-static arm is not taken under LTO the
\* link ends at the assertion !sess.lto(), before any dynamic library is
\* looked up (no such lookup has failed or pushed an argument) and without
\* the linker being invoked.
C17_NoDynamicUnderLto ==
    (cc # NoCc /\ sess.lto) =>
        /\ \A i \in 1..Len(UpstreamCrateArgs) : ~IsDynamicLibraryArg(UpstreamCrateArgs[i])
        /\ ~AllStaticTaken =>
              /\ pc = "failed"
              /\ fatal = "assertion failed: !sess.lto()"
              /\ UpstreamCrateArgs = <<>>
              /\ procs = <<>>
              /\ \A i \in 1..Len(errors) : errors[i].msg # "could not find dynamic library for"

\* an executable under LTO whose second crate has no rlib and whose first
\* has no dynamic library: the link ended at the assertion
C17_Witness ==
    /\ sess.lto
    /\ cur.output = "OutputExecutable"
    /\ ~sess.prefer_dynamic
    /\ Len(sess.cstore.crates) = 2
    /\ ~sess.cstore.crates[1].dylib.some
    /\ ~sess.cstore.crates[2].rlib.some
    /\ cc # NoCc
    /\ fatal = "assertion failed: !sess.lto()"


\* the arguments add_upstream_native_libraries pushed for the current output
UpstreamNativeArgs ==
    LET up == SelectSeq(cc.args, LAMBDA a : a.g = "upstream_native")
    IN  [i \in 1..Len(up) |-> up[i].s]

\* the arguments the claim gives one native library of an upstream crate
NativeLibraryArgs(l) ==
    IF l.kind = "NativeUnknown" THEN <<<<"-", "l">> \o l.name>>
    ELSE IF l.kind = "NativeFramework" THEN <<<<"-", "f", "r", "a", "m", "e", "w", "o", "r", "k">>, l.name>>
    ELSE <<>>

\* C18: a native link that gets past the upstream crates adds the native
\* libraries of every upstream crate, in crate order and in declaration
\* order, whether the crates were resolved statically or dynamically:
\* -l<name> for a library of unknown kind, -framework and the name for a
\* framework; a static library of an upstream crate ends the link as an
\* internal defect, is never passed on, and the linker is not invoked.
C18_UpstreamNatives ==
    (cc # NoCc /\ fatal # "assertion failed: !sess.lto()") =>
        LET libs == UpstreamNativeLibraries
            static == \E i \in 1..Len(libs) : libs[i].kind = "NativeStatic"
        IN  /\ ~static =>
                  /\ UpstreamNativeArgs = Concat([i \in 1..Len(libs) |-> NativeLibraryArgs(libs[i])])
                  /\ fatal # "statics shouldn't be propagated"
            /\ (Len(sess.cstore.crates) = 2 /\ Len(libs) = 3) =>
                  UpstreamNativeArgs = <<<<"-", "l", "m">>, <<"-", "f", "r", "a", "m", "e", "w", "o", "r", "k">>,
                                         <<"C", "o", "c", "o", "a">>, <<"-", "l", "z">>>>
            /\ static =>
                  /\ pc = "failed"
                  /\ fatal = "statics shouldn't be propagated"
                  /\ procs = <<>>
                  /\ \A i \in 1..Len(libs) :
                        libs[i].kind = "NativeStatic" =>
                            \A j \in 1..Len(cc.args) :
                                cc.args[j].g = "upstream_native" =>
                                    cc.args[j].s \notin {libs[i].name, <<"-", "l">> \o libs[i].name}

\* the native libraries of two crates reach the linker in a link that
\* resolved the crates dynamically
C18_Witness ==
    /\ pc = "run_linker"
    /\ UpstreamNativeArgs = <<<<"-", "l", "m">>, <<"-", "f", "r", "a", "m", "e", "w", "o", "r", "k">>,
                              <<"C", "o", "c", "o", "a">>, <<"-", "l", "z">>>>
    /\ UpstreamCrateArgs # <<>>
    /\ IsDynamicLibraryArg(UpstreamCrateArgs[1])


\* the place of each group of arguments in the order the claim gives
GroupRank(g) ==
    CASE g = "target" -> 0
      [] g = "stage" -> 1
      [] g = "output" -> 2
      [] g = "object" -> 3
      [] g = "metadata" -> 4
      [] g = "linux" -> 5
      [] g = "local" -> 6
      [] g = "upstream_crate" -> 7
      [] g = "upstream_native" -> 8
      [] g = "mode" -> 9
      [] g = "freebsd" -> 10
      [] g = "morestack" -> 11
      [] g = "rpath" -> 12
      [] g = "linker_args" -> 13
      [] g = "used_link_args" -> 14

\* the arguments of one group, in order
GroupArgs(g) ==
    LET sel == SelectSeq(cc.args, LAMBDA a : a.g = g)
    IN  [i \in 1..Len(sel) |-> sel[i].s]

\* C19: the groups of the arguments come in the fixed order: target library
\* search path, -o and the output path, the object file, the metadata
\* object (exactly for a dynamic library), the Linux flags, the local
\* search paths and native libraries, the upstream crates, the upstream
\* native libraries, the mode flags (only for a dynamic library), the
\* FreeBSD search paths, -lmorestack, the rpath flags, the linker arguments
\* of the command line, the linker arguments of the crate attributes.
C19_ArgumentOrder ==
    cc # NoCc =>
        LET n == Len(sess.cc_args)
            dylib == cur.output = "OutputDylib"
        IN  /\ \A i, j \in 1..Len(cc.args) :
                  i < j => GroupRank(cc.args[i].g) <= GroupRank(cc.args[j].g)
            /\ GroupArgs("stage") = <<<<"-", "L", "r", "u", "s", "t", "l", "i", "b">>>>
            /\ GroupArgs("output") = <<<<"-", "o">>, cur.out_filename>>
            /\ GroupArgs("object") = <<ObjFilename>>
            /\ GroupArgs("metadata") =
                  IF dylib THEN <<<<"b", "u", "i", "l", "d", "/", "d", "e", "m", "o", ".", "m", "e", "t", "a", "d", "a", "t", "a", ".", "o">>>> ELSE <<>>
            /\ GroupArgs("linux") # <<>> <=> sess.os = "OsLinux"
            /\ Len(GroupArgs("local")) = 6
            /\ GroupArgs("mode") # <<>> => dylib
            /\ GroupArgs("freebsd") # <<>> => sess.os = "OsFreebsd"
            /\ pc = "run_linker" =>
                  /\ dylib => GroupArgs("mode") # <<>>
                  /\ sess.os = "OsFreebsd" => Len(GroupArgs("freebsd")) = 3
                  /\ GroupArgs("morestack") = <<<<"-", "l", "m", "o", "r", "e", "s", "t", "a", "c", "k">>>>
                  /\ GroupArgs("linker_args") = sess.linker_args
                  /\ GroupArgs("used_link_args") = sess.cstore.used_link_args
                  /\ cc.args[Len(cc.args)].g = "used_link_args"

\* a dynamic library on FreeBSD linked against upstream crates with native
\* libraries: every group but the Linux flags is there
C19_Witness ==
    /\ pc = "run_linker"
    /\ cur.output = "OutputDylib"
    /\ sess.os = "OsFreebsd"
    /\ {cc.args[i].g : i \in 1..Len(cc.args)} =
          {"target", "stage", "output", "object", "metadata", "local", "upstream_crate",
           "upstream_native", "mode", "freebsd", "morestack", "rpath", "linker_args",
           "used_link_args"}


\* the current output is a native one whose paths were writeable
NativeOutputStarted ==
    /\ cur.output \in {"OutputDylib", "OutputExecutable"}
    /\ cur.obj_is_writeable /\ cur.out_is_writeable

\* Android is the target and no cross-compiler path is configured
AndroidWithoutCrossPath == sess.os = "OsAndroid" /\ ~sess.android_cross_path.some

\* C20, as stated: on Android with no cross-compiler path the driver cannot
\* be resolved, which is fatal, and no subprocess is started; on the other
\* targets the driver is g++ on Windows and cc elsewhere.
C20_DriverAsStated ==
    /\ AndroidWithoutCrossPath =>
          /\ cc = NoCc /\ procs = <<>>
          /\ (NativeOutputStarted /\ pc # "link_natively") =>
                (pc = "failed" /\ fatal = "need Android NDK path for linking")
    /\ (cc # NoCc /\ sess.os # "OsAndroid") =>
          cc.prog = IF sess.os = "OsWin32" THEN <<"g", "+", "+">> ELSE <<"c", "c">>

\* C20, amended: unless a linker is configured explicitly, and then that
\* linker is the driver on every target, on Android with no cross-compiler
\* path the driver cannot be resolved, which is fatal, and no subprocess is
\* started; on the other targets the driver is g++ on Windows and cc
\* elsewhere.
C20_Driver ==
    /\ (cc # NoCc /\ sess.linker.some) => cc.prog = sess.linker.v
    /\ (NativeOutputStarted /\ sess.linker.some) => fatal # "need Android NDK path for linking"
    /\ (AndroidWithoutCrossPath /\ ~sess.linker.some) =>
          /\ cc = NoCc /\ procs = <<>>
          /\ (NativeOutputStarted /\ pc # "link_natively") =>
                (pc = "failed" /\ fatal = "need Android NDK path for linking")
    /\ (cc # NoCc /\ sess.os # "OsAndroid" /\ ~sess.linker.some) =>
          cc.prog = IF sess.os = "OsWin32" THEN <<"g", "+", "+">> ELSE <<"c", "c">>

\* a native output on Android with neither a cross-compiler path nor a
\* linker configured ended at get_cc_prog
C20_Witness ==
    /\ AndroidWithoutCrossPath /\ ~sess.linker.some
    /\ NativeOutputStarted
    /\ pc = "failed"
    /\ fatal = "need Android NDK path for linking"
    /\ procs = <<>>


\* the processes of the current output that ran the linker driver
LinkerRuns == SelectSeq(procs, LAMBDA p : p.prog = cc.prog)

\* the processes of the current output that ran dsymutil
DsymutilRuns == SelectSeq(procs, LAMBDA p : p.prog = <<"d", "s", "y", "m", "u", "t", "i", "l">>)

\* C21: when the linker exits with a non-zero status an error naming the
\* driver is recorded, with notes that give the driver with its arguments
\* and what the process wrote; the build then aborts and dsymutil is not
\* run for that output; the linker is run once for a native output, never
\* a second time.
C21_LinkerFailure ==
    /\ Len(LinkerRuns) <= 1
    /\ (cur.output \in {"OutputDylib", "OutputExecutable"} /\ pc = "link_binary") =>
          Len(LinkerRuns) = 1
    /\ (procs # <<>> /\ ~success(procs[1].status)) =>
          /\ procs = <<[prog |-> cc.prog, errs |-> 0, status |-> procs[1].status]>>
          /\ DsymutilRuns = <<>>
          /\ errors # <<>>
          /\ errors[Len(errors)] = [msg |-> "linking failed", what |-> cc.prog]
          /\ notes = <<[msg |-> "arguments", prog |-> cc.prog,
                        what |-> [k \in 1..Len(cc.args) |-> cc.args[k].s]],
                       [msg |-> "output", prog |-> cc.prog,
                        what |-> <<<<"l", "d", ":", " ", "e", "r", "r", "o", "r">>>>]>>
          /\ pc = "failed"
          /\ fatal = "aborting due to previous errors"
    /\ (procs = <<>> \/ success(procs[1].status)) => notes = <<>>

\* the linker failed on Mac OS with debug information on: dsymutil was not
\* run and an output was still to be produced
C21_Witness ==
    /\ procs # <<>>
    /\ procs[1].status = 1
    /\ sess.os = "OsMacos" /\ sess.debuginfo
    /\ pc = "failed"
    /\ outputs # <<>>
    /\ Len(notes) = 2


\* C22, as stated: dsymutil runs after a successful link when the target
\* is Mac OS and debug information is on, and when it exits with a
\* non-zero status an error is recorded and the build fails.
C22_DsymutilFailureIsFatal ==
    /\ (pc = "link_binary" /\ procs # <<>> /\ sess.os = "OsMacos" /\ sess.debuginfo) =>
          Len(DsymutilRuns) = 1
    /\ \A i \in 1..Len(procs) :
          (procs[i].prog = <<"d", "s", "y", "m", "u", "t", "i", "l">> /\ ~success(procs[i].status)) =>
              /\ i = 2 /\ success(procs[1].status)
              /\ errors # <<>>
              /\ pc = "failed"


\* the object file given to link_binary and its metadata object
Temporaries ==
    {<<"b", "u", "i", "l", "d", "/", "d", "e", "m", "o", ".", "o">>,
     <<"b", "u", "i", "l", "d", "/", "d", "e", "m", "o", ".", "m", "e", "t", "a", "d", "a", "t", "a", ".", "o">>}

\* C23: the object file and its metadata object are removed only once
\* every requested output was assembled, so that no state in which an
\* output is being assembled has them removed; they are removed
\* whenever temporaries are not kept and every output completed, and never
\* when temporaries are kept.
C23_TemporariesRemovedLast ==
    /\ (Temporaries \cap unlinked # {}) =>
          (pc = "done" /\ outputs = <<>> /\ fatal = "none" /\ ~sess.save_temps)
    /\ (pc = "done" /\ ~sess.save_temps) => Temporaries \subseteq unlinked
    /\ sess.save_temps => Temporaries \cap unlinked = {}

\* an executable was linked as the last output and the temporaries were
\* removed after it
C23_Witness ==
    /\ pc = "done"
    /\ ~sess.save_temps
    /\ cur.output = "OutputExecutable"
    /\ procs # <<>>
    /\ Temporaries \subseteq unlinked


\* the errors of the current link about a dynamic library not found
DynamicLibraryErrors ==
    SelectSeq(errors, LAMBDA e : e.msg = "could not find dynamic library for")

\* the upstream crates that have no dynamic library, by their place in the
\* enumeration
CratesLackingDylib ==
    {k \in 1..Len(sess.cstore.crates) : ~sess.cstore.crates[k].dylib.some}

\* C24: the dynamic fallback stops at the first upstream crate without a
\* dynamic library: one error, naming that crate, is recorded; the
\* arguments of the crates before it stay; no argument and no error is
\* there for a crate after it, even one that lacks a dynamic library too.
C24_StopsAtFirstMissing ==
    (cc # NoCc /\ ~AllStaticTaken /\ ~sess.lto) =>
        LET crates == sess.cstore.crates
            lacking == CratesLackingDylib
        IN  /\ lacking = {} => DynamicLibraryErrors = <<>>
            /\ \A first \in lacking :
                  (\A k \in lacking : first <= k) =>
                      /\ DynamicLibraryErrors =
                            <<[msg |-> "could not find dynamic library for",
                               what |-> crates[first].name]>>
                      /\ UpstreamCrateArgs =
                            Concat([k \in 1..(first - 1) |->
                                <<<<"-", "L", "d", "e", "p", "s">>, <<"-", "l">> \o crates[k].name>>])
                      /\ \A k \in (first + 1)..Len(crates) :
                            \A i \in 1..Len(UpstreamCrateArgs) :
                                UpstreamCrateArgs[i] # <<"-", "l">> \o crates[k].name

\* a dynamic library whose two upstream crates both lack a dynamic
\* library: the one error names the first
C24_Witness ==
    /\ cur.output = "OutputDylib"
    /\ cc # NoCc
    /\ ~sess.lto
    /\ CratesLackingDylib = {1, 2}
    /\ DynamicLibraryErrors = <<[msg |-> "could not find dynamic library for", what |-> <<"a">>]>>


\* the source characters sanitize escapes with a token of its own
SpecialChars == {"@", "~", "*", "&", "<", ">", "(", ")", ","}

\* s and t differ, and only in which special character stands at a place
DiffersOnlyInSpecials(s, t) ==
    /\ Len(s) = Len(t)
    /\ s # t
    /\ \A i \in 1..Len(s) : s[i] # t[i] => (s[i] \in SpecialChars /\ t[i] \in SpecialChars)

\* C25, as stated: two segments that differ only in which of the special
\* characters @ ~ * & < > ( ) , stands at some place have different
\* sanitized forms.
C25_DistinctEscapeTokens ==
    m_pc = "sanitize" =>
        \A t \in SanitizeInputs :
            DiffersOnlyInSpecials(m_in.s, t) => sanitize(t) # m_out

=============================================================================
